---- MODULE Spec2Model ----
(***************************************************************************)
(* Model of the Moz JSON-RPC client (src/src/moz-client.ts): credential    *)
(* resolution in the constructor, request construction and response        *)
(* unwrapping in sendRequest, the endpoint wrappers, and the compound      *)
(* getCompetitorAnalysis operation with generateCompetitorInsights; and of  *)
(* the tool dispatch handler that calls the client (src/src/index.ts).     *)
(*                                                                         *)
(* Encoding of JavaScript values:                                          *)
(*  - an object is a record; an absent property is an absent field;        *)
(*  - a string that the code inspects character by character is a         *)
(*    sequence (of byte values for the credential, of one-character        *)
(*    strings for keywords); other strings are TLA+ strings;               *)
(*  - an array returned by the remote service is Array(seq), a record      *)
(*    with the array's length and its items.                               *)
(***************************************************************************)
EXTENDS Integers, Sequences, FiniteSets, TLC

(* ------------------------------ bounds -------------------------------- *)
MaxCompetitors == 2
MaxFailures == 3
MaxCredLen == 4
MaxBrandAuthority == 100
MaxKeywords == 2

(* --------------------------- generic helpers -------------------------- *)
Has(obj, f) == f \in DOMAIN obj

SeqsUpTo(S, n) == UNION {[1..k -> S] : k \in 0..n}

Array(items) == [length |-> Len(items), items |-> items]

RECURSIVE IndexOf(_, _, _)
\* first position >= from at which s holds c, or 0
IndexOf(s, c, from) ==
  IF from > Len(s) THEN 0
  ELSE IF s[from] = c THEN from
  ELSE IndexOf(s, c, from + 1)

(* ------------------- constructor: credential resolution --------------- *)
\* The base64 alphabet; the value of a character is its position minus 1.
Base64Alphabet ==
  << "A","B","C","D","E","F","G","H","I","J","K","L","M","N","O","P",
     "Q","R","S","T","U","V","W","X","Y","Z","a","b","c","d","e","f",
     "g","h","i","j","k","l","m","n","o","p","q","r","s","t","u","v",
     "w","x","y","z","0","1","2","3","4","5","6","7","8","9","+","/" >>

Unbase64(c) == IndexOf(Base64Alphabet, c, 1) - 1

Colon == 58

\* The characters before the first "=", without those outside the alphabet,
\* as 6-bit values: the decoder skips illegal characters and stops at "=".
Sextets(token) ==
  LET stop == IndexOf(token, "=", 1)
      body == IF stop = 0 THEN token ELSE SubSeq(token, 1, stop - 1)
      legal == SelectSeq(body, LAMBDA c : Unbase64(c) >= 0)
  IN  [i \in 1..Len(legal) |-> Unbase64(legal[i])]

RECURSIVE DecodeGroups(_)
\* 4 sextets give 3 bytes, a tail of 3 gives 2, of 2 gives 1, of 1 nothing.
DecodeGroups(s) ==
  IF Len(s) < 2 THEN << >>
  ELSE LET b1 == (s[1] * 4 + (s[2] \div 16)) % 256 IN
       IF Len(s) = 2 THEN << b1 >>
       ELSE LET b2 == ((s[2] % 16) * 16 + (s[3] \div 4)) % 256 IN
            IF Len(s) = 3 THEN << b1, b2 >>
            ELSE LET b3 == ((s[3] % 4) * 64 + s[4]) % 256 IN
                 << b1, b2, b3 >> \o DecodeGroups(SubSeq(s, 5, Len(s)))

\* Buffer.from(token, 'base64'): never throws.
Base64Decode(token) == DecodeGroups(Sextets(token))

\* toString('utf-8') is the identity on ASCII bytes; the credentials drawn
\* below are those whose decoding is ASCII.
IsAscii(bytes) == \A i \in 1..Len(bytes) : bytes[i] < 128

\* String.prototype.split(':')
RECURSIVE Split(_)
Split(text) ==
  LET p == IndexOf(text, Colon, 1) IN
  IF p = 0 THEN << text >>
  ELSE << SubSeq(text, 1, p - 1) >> \o Split(SubSeq(text, p + 1, Len(text)))

ColonCount(text) == Cardinality({i \in 1..Len(text) : text[i] = Colon})

BaseUrl == "https://api.moz.com/jsonrpc"

\* decoded.includes(':')
HasCredentialPair(decoded) == IndexOf(decoded, Colon, 1) > 0

\* new MozApiClient({apiToken}): the fields of the constructed object and
\* the line written to the log.
constructor(apiToken) ==
  LET decoded == Base64Decode(apiToken) IN
  IF HasCredentialPair(decoded)
  THEN LET parts == Split(decoded) IN
       [ threw |-> FALSE, log |-> "V2",
         client |-> [ apiToken |-> apiToken, baseUrl |-> BaseUrl,
                      accessId |-> parts[1], secretKey |-> parts[2] ] ]
  ELSE [ threw |-> FALSE, log |-> "V3",
         client |-> [ apiToken |-> apiToken, baseUrl |-> BaseUrl ] ]

CredChars == {"O", "j", "o", "6", "Y", "i", "=", "!"}

Credentials ==
  {t \in SeqsUpTo(CredChars, MaxCredLen) : IsAscii(Base64Decode(t))}

(* ------------------------ requests and wrappers ------------------------ *)
\* JavaScript truthiness of an option value: 0 and "" are falsy.
Truthy(f, v) == IF f = "limit" THEN v # 0 ELSE v # ""

\* options?.f || dflt
OrDefault(options, f, dflt) ==
  IF Has(options, f) /\ Truthy(f, options[f]) THEN options[f] ELSE dflt

\* ...(options?.f && { as: options.f })
Spread(options, f, as) ==
  IF Has(options, f) /\ Truthy(f, options[f]) THEN as :> options[f] ELSE << >>

\* The request object.  Its id (uuidv4()) is left out: it is a random value
\* that no code of the client reads back (a response's id is never compared
\* with its request's).
createRequest(method, params) ==
  [ jsonrpc |-> "2.0", method |-> method, params |-> params ]

SerpQuery(keyword, options) ==
  [ keyword |-> keyword, locale |-> OrDefault(options, "locale", "en-US"),
    device |-> "desktop", engine |-> OrDefault(options, "engine", "google") ]

SiteQuery(site) == [ query |-> site, scope |-> "domain" ]

getQuota ==
  createRequest("quota.lookup", [data |-> [path |-> "api.limits.data.rows"]])

getKeywordSearchIntent(keyword, options) ==
  createRequest("data.keyword.search.intent.fetch",
                [data |-> [serp_query |-> SerpQuery(keyword, options)]])

getKeywordSuggestions(keyword, options) ==
  createRequest("data.keyword.suggestions.list",
    [data |-> [serp_query |->
      [ keyword |-> keyword, locale |-> OrDefault(options, "locale", "en-US"),
        device |-> "desktop", engine |-> "google" ]]])

getKeywordDifficulty(keyword, options) ==
  createRequest("data.keyword.metrics.difficulty.fetch",
                [data |-> [serp_query |-> SerpQuery(keyword, options)]])

getKeywordVolume(keyword, options) ==
  createRequest("data.keyword.metrics.volume.fetch",
                [data |-> [serp_query |-> SerpQuery(keyword, options)]])

getKeywordMetrics(keyword, options) ==
  createRequest("data.keyword.metrics.fetch",
                [data |-> [serp_query |-> SerpQuery(keyword, options)]])

getKeywordOpportunity(keyword, options) ==
  createRequest("data.keyword.metrics.opportunity.fetch",
                [data |-> [serp_query |-> SerpQuery(keyword, options)]])

getKeywordPriority(keyword, options) ==
  createRequest("data.keyword.metrics.priority.fetch",
                [data |-> [serp_query |-> SerpQuery(keyword, options)]])

getSiteBrandAuthority(site) ==
  createRequest("data.site.metrics.brand.authority.fetch",
                [data |-> [site_query |-> SiteQuery(site)]])

getSiteMetrics(site) ==
  createRequest("data.site.metrics.fetch",
                [data |-> [site_query |-> SiteQuery(site)]])

getSiteRankingKeywords(site, options) ==
  createRequest("data.site.ranking.keywords.list",
    [data |->
      [ target_query |-> [ query |-> site, scope |-> "domain",
                           locale |-> OrDefault(options, "locale", "en-US") ],
        serp_query |-> [ engine |-> OrDefault(options, "engine", "google"),
                         locale |-> OrDefault(options, "locale", "en-US") ],
        limit |-> OrDefault(options, "limit", 100) ]])

getUrlMetrics(targets, options) ==
  createRequest("data.url_metrics",
    [data |-> [targets |-> targets] @@ Spread(options, "scope", "scope")
                                    @@ Spread(options, "metrics", "metrics")])

getLinks(target, options) ==
  createRequest("data.links",
    [data |-> [ target |-> target, scope |-> OrDefault(options, "scope", "page"),
                limit |-> OrDefault(options, "limit", 50) ]
              @@ Spread(options, "sort", "sort")
              @@ Spread(options, "filter", "filter")
              @@ Spread(options, "sourceScope", "source_scope")])

getAnchorText(target, options) ==
  createRequest("data.anchor_text",
    [data |-> [ target |-> target, scope |-> OrDefault(options, "scope", "page"),
                limit |-> OrDefault(options, "limit", 50) ]
              @@ Spread(options, "sort", "sort")])

getTopPages(target, options) ==
  createRequest("data.top_pages",
    [data |-> [ target |-> target,
                scope |-> OrDefault(options, "scope", "root_domain"),
                limit |-> OrDefault(options, "limit", 50) ]
              @@ Spread(options, "sort", "sort")])

getLinkingDomains(target, options) ==
  createRequest("data.linking_domains",
    [data |-> [ target |-> target, scope |-> OrDefault(options, "scope", "page"),
                limit |-> OrDefault(options, "limit", 50) ]
              @@ Spread(options, "sort", "sort")
              @@ Spread(options, "filter", "filter")])

getGlobalTopPages(options) ==
  createRequest("data.global.top.pages.list",
                [data |-> [limit |-> OrDefault(options, "limit", 100)]])

getGlobalTopDomains(options) ==
  createRequest("data.global.top.domains.list",
                [data |-> [limit |-> OrDefault(options, "limit", 100)]])

getUsageData(options) ==
  createRequest("data.usage",
    [data |-> Spread(options, "start", "start") @@ Spread(options, "end", "end")])

getSiteMetricsMultiple(sites) ==
  createRequest("data.site.metrics.fetch.multiple",
    [data |-> [site_queries |-> [i \in 1..Len(sites) |-> SiteQuery(sites[i])]]])

getSiteRankingKeywordsCount(site, options) ==
  createRequest("site.ranking_keywords.count",
    [data |-> [ site |-> site, engine |-> OrDefault(options, "engine", "google"),
                locale |-> OrDefault(options, "locale", "en-US") ]])

\* The request a wrapper builds for a call [wrapper, <argument>, options].
WrapperRequest(call) ==
  CASE call.wrapper = "getQuota" -> getQuota
    [] call.wrapper = "getKeywordSearchIntent" ->
         getKeywordSearchIntent(call.keyword, call.options)
    [] call.wrapper = "getKeywordSuggestions" ->
         getKeywordSuggestions(call.keyword, call.options)
    [] call.wrapper = "getKeywordDifficulty" ->
         getKeywordDifficulty(call.keyword, call.options)
    [] call.wrapper = "getKeywordVolume" ->
         getKeywordVolume(call.keyword, call.options)
    [] call.wrapper = "getKeywordMetrics" ->
         getKeywordMetrics(call.keyword, call.options)
    [] call.wrapper = "getKeywordOpportunity" ->
         getKeywordOpportunity(call.keyword, call.options)
    [] call.wrapper = "getKeywordPriority" ->
         getKeywordPriority(call.keyword, call.options)
    [] call.wrapper = "getSiteBrandAuthority" -> getSiteBrandAuthority(call.site)
    [] call.wrapper = "getSiteMetrics" -> getSiteMetrics(call.site)
    [] call.wrapper = "getSiteRankingKeywords" ->
         getSiteRankingKeywords(call.site, call.options)
    [] call.wrapper = "getUrlMetrics" -> getUrlMetrics(call.targets, call.options)
    [] call.wrapper = "getLinks" -> getLinks(call.target, call.options)
    [] call.wrapper = "getAnchorText" -> getAnchorText(call.target, call.options)
    [] call.wrapper = "getTopPages" -> getTopPages(call.target, call.options)
    [] call.wrapper = "getLinkingDomains" ->
         getLinkingDomains(call.target, call.options)
    [] call.wrapper = "getGlobalTopPages" -> getGlobalTopPages(call.options)
    [] call.wrapper = "getGlobalTopDomains" -> getGlobalTopDomains(call.options)
    [] call.wrapper = "getUsageData" -> getUsageData(call.options)
    [] call.wrapper = "getSiteMetricsMultiple" ->
         getSiteMetricsMultiple(call.sites)
    [] call.wrapper = "getSiteRankingKeywordsCount" ->
         getSiteRankingKeywordsCount(call.site, call.options)

(* ---------------------- transport and sendRequest ---------------------- *)
\* The HMAC-SHA1 digest is kept as the key and the text it is computed over.
createAuthSignature(c, timestamp) ==
  IF ~Has(c, "accessId") \/ c.accessId = << >>
     \/ ~Has(c, "secretKey") \/ c.secretKey = << >>
  THEN [ threw |-> TRUE,
         message |-> "Access ID and Secret Key required for signature authentication" ]
  ELSE [ threw |-> FALSE,
         signature |-> [ hmac |-> "sha1", key |-> c.secretKey,
                         accessId |-> c.accessId, timestamp |-> timestamp ] ]

\* Variant: with an access id and a secret key the signature is sent.
getAuthHeadersSigned(c) ==
  IF ~Has(c, "accessId") \/ c.accessId = << >>
     \/ ~Has(c, "secretKey") \/ c.secretKey = << >>
  THEN [ x_moz_token |-> c.apiToken ]
  ELSE [ x_moz_access_id |-> c.accessId,
         x_moz_signature |-> createAuthSignature(c, 0).signature ]

getAuthHeaders(c) ==
  IF ~Has(c, "accessId") \/ c.accessId = << >>
     \/ ~Has(c, "secretKey") \/ c.secretKey = << >>
  THEN [ x_moz_token |-> c.apiToken ]
  ELSE [ x_moz_token |-> c.apiToken ]

\* What axiosInstance.post('', request, {headers}) carries to the network.
Outbound(c, request) ==
  [ url |-> c.baseUrl, body |-> request,
    headers |-> [content_type |-> "application/json"] @@ getAuthHeaders(c) ]

\* Variant: the catch block wraps every error it catches as a network error.
sendRequestAllNetwork(reply) ==
  IF reply.resolved
  THEN IF Has(reply.data, "error")
       THEN [ state |-> "rejected",
              reason |-> [ message |->
                [ prefix |-> "Network Error",
                  message |-> [ prefix |-> "Moz API Error",
                                message |-> reply.data.error.message,
                                code |-> reply.data.error.code ],
                  data |-> [none |-> "No response data"] ] ] ]
       ELSE IF Has(reply.data, "result")
            THEN [ state |-> "fulfilled", value |-> reply.data.result ]
            ELSE [ state |-> "fulfilled", value |-> [undefined |-> TRUE] ]
  ELSE [ state |-> "rejected",
         reason |-> [ message |->
           [ prefix |-> "Network Error",
             message |-> IF reply.axios THEN reply.message ELSE "error",
             data |-> IF Has(reply, "response") /\ Has(reply.response, "data")
                      THEN reply.response.data
                      ELSE [none |-> "No response data"] ] ] ]

\* Variant: the response body is returned instead of its result.
sendRequestWholeBody(reply) ==
  IF reply.resolved
  THEN IF Has(reply.data, "error")
       THEN [ state |-> "rejected",
              reason |-> [ message |-> [ prefix |-> "Moz API Error",
                                         message |-> reply.data.error.message,
                                         code |-> reply.data.error.code ] ] ]
       ELSE [ state |-> "fulfilled", value |-> reply.data ]
  ELSE IF reply.axios
       THEN [ state |-> "rejected",
              reason |-> [ message |->
                [ prefix |-> "Network Error", message |-> reply.message,
                  data |-> IF Has(reply, "response") /\ Has(reply.response, "data")
                           THEN reply.response.data
                           ELSE [none |-> "No response data"] ] ] ]
       ELSE [ state |-> "rejected", reason |-> reply.error ]

\* sendRequest once the post has settled with `reply`: either
\*   [resolved |-> TRUE, data |-> <response body>]   or
\*   [resolved |-> FALSE, axios |-> TRUE, message |-> .., response |-> ..]  or
\*   [resolved |-> FALSE, axios |-> FALSE, error |-> <the value thrown>].
\* The value is the settlement of the promise sendRequest returned.  The text
\* of an Error is kept as the parts of its template.
sendRequest(reply) ==
  IF reply.resolved
  THEN IF Has(reply.data, "error")
       THEN [ state |-> "rejected",
              reason |-> [ message |-> [ prefix |-> "Moz API Error",
                                         message |-> reply.data.error.message,
                                         code |-> reply.data.error.code ] ] ]
       ELSE IF Has(reply.data, "result")
            THEN [ state |-> "fulfilled", value |-> reply.data.result ]
            ELSE [ state |-> "fulfilled", value |-> [undefined |-> TRUE] ]
  ELSE IF reply.axios
       THEN [ state |-> "rejected",
              reason |-> [ message |->
                [ prefix |-> "Network Error", message |-> reply.message,
                  data |-> IF Has(reply, "response") /\ Has(reply.response, "data")
                           THEN reply.response.data
                           ELSE [none |-> "No response data"] ] ] ]
       ELSE [ state |-> "rejected", reason |-> reply.error ]


(* --------------------------- the remote service ------------------------ *)
PrimarySite == "example.com"
CompetitorPool == {"c1.com", "c2.com"}
TargetKeyword == << "s", "e", "o" >>

BrandAuthorityOf(site) ==
  CASE site = "example.com" -> 50
    [] site = "c1.com" -> 60
    [] site = "c2.com" -> 40
    [] OTHER -> 0

RankingOf(site) ==
  CASE site = "example.com" ->
         << [ keyword |-> [str |-> << "S", "E", "O", " ", "k", "i", "t" >>],
              rank |-> 4 ] >>
    [] OTHER -> << [ keyword |-> [str |-> << "a", "d", "s" >>], rank |-> 9 ] >>

\* The `result` member the service answers a request with.  It names the
\* request it answers, so that an answer can be told from every other one.
RemoteResult(request) ==
  LET m == request.method
      d == request.params.data IN
  CASE m = "data.site.metrics.fetch" ->
         [ of |-> m, site |-> d.site_query.query ]
    [] m = "data.site.metrics.brand.authority.fetch" ->
         [ of |-> m, site |-> d.site_query.query,
           result |-> [brand_authority |-> BrandAuthorityOf(d.site_query.query)] ]
    [] m = "data.site.ranking.keywords.list" ->
         [ of |-> m, site |-> d.target_query.query,
           result |-> Array(RankingOf(d.target_query.query)) ]
    [] m = "data.keyword.metrics.difficulty.fetch" ->
         [ of |-> m, keyword |-> d.serp_query.keyword,
           result |-> [difficulty |-> 55] ]
    [] m = "data.keyword.metrics.volume.fetch" ->
         [ of |-> m, keyword |-> d.serp_query.keyword,
           result |-> [volume |-> 12000] ]
    [] m \in { "data.keyword.metrics.fetch", "data.keyword.search.intent.fetch" } ->
         [ of |-> m, keyword |-> d.serp_query.keyword ]
    [] OTHER -> [ of |-> m ]

ResultReply(request) ==
  [ resolved |-> TRUE,
    data |-> [ jsonrpc |-> "2.0", result |-> RemoteResult(request) ] ]

ErrorReply(code, message) ==
  [ resolved |-> TRUE,
    data |-> [ jsonrpc |-> "2.0", error |-> [code |-> code, message |-> message] ] ]

NetworkFailure(message) ==
  [ resolved |-> FALSE, axios |-> TRUE, message |-> message ]

\* The ways a call of the analysis can fail: the site calls by a transport
\* failure, the keyword calls by an error envelope.
FailureReply(request) ==
  IF request.method \in { "data.site.metrics.fetch",
                          "data.site.metrics.brand.authority.fetch",
                          "data.site.ranking.keywords.list" }
  THEN NetworkFailure("timeout")
  ELSE ErrorReply(7, "bad")

IsFailure(reply) == ~reply.resolved \/ Has(reply.data, "error")

AnalysisReplies(request) == { ResultReply(request), FailureReply(request) }


(* ---------------------- generateCompetitorInsights --------------------- *)
UpperCase ==
  << "A","B","C","D","E","F","G","H","I","J","K","L","M",
     "N","O","P","Q","R","S","T","U","V","W","X","Y","Z" >>
LowerCase ==
  << "a","b","c","d","e","f","g","h","i","j","k","l","m",
     "n","o","p","q","r","s","t","u","v","w","x","y","z" >>

toLowerCase(str) ==
  [ i \in 1..Len(str) |->
      LET u == IndexOf(UpperCase, str[i], 1) IN
      IF u = 0 THEN str[i] ELSE LowerCase[u] ]

\* String.prototype.includes
includes(str, part) ==
  \E i \in 0..(Len(str) - Len(part)) : SubSeq(str, i + 1, i + Len(part)) = part

RECURSIVE toLocaleString(_)
\* the groups of three digits that en-US formatting separates by commas
toLocaleString(n) ==
  IF n < 1000 THEN << n >> ELSE toLocaleString(n \div 1000) \o << n % 1000 >>

\* x?.result?.f of a slot, as a set: empty when any step is undefined.
ResultField(slot, f) ==
  IF Has(slot, "result") /\ Has(slot.result, f) THEN {slot.result[f]} ELSE {}

\* Variant: the thresholds are exclusive
BandExclusive(v, top, high, mid, low) ==
  IF v > 70 THEN top ELSE IF v > 50 THEN high ELSE IF v > 30 THEN mid ELSE low

Band(v, top, high, mid, low) ==
  IF v >= 70 THEN top ELSE IF v >= 50 THEN high ELSE IF v >= 30 THEN mid ELSE low

BrandAuthorityInsight(analysis) ==
  IF Has(analysis.primary_site_data, "brand_authority")
     /\ Has(analysis.primary_site_data.brand_authority, "result")
  THEN LET r == analysis.primary_site_data.brand_authority.result IN
       IF Has(r, "brand_authority") /\ r.brand_authority # 0
       THEN << [ rule |-> "brand_authority", value |-> r.brand_authority,
                 band |-> Band(r.brand_authority, "Excellent", "Good", "Fair",
                               "Needs improvement") ] >>
       ELSE << >>
  ELSE << >>

DifficultyInsight(analysis) ==
  IF Has(analysis.keyword_analysis, "difficulty")
     /\ Has(analysis.keyword_analysis.difficulty, "result")
  THEN LET r == analysis.keyword_analysis.difficulty.result IN
       IF Has(r, "difficulty") /\ r.difficulty # 0
       THEN << [ rule |-> "difficulty", keyword |-> analysis.target_keyword,
                 value |-> r.difficulty,
                 band |-> Band(r.difficulty, "Very Hard", "Hard", "Medium",
                               "Easy") ] >>
       ELSE << >>
  ELSE << >>

VolumeInsight(analysis) ==
  IF Has(analysis.keyword_analysis, "volume")
     /\ Has(analysis.keyword_analysis.volume, "result")
  THEN LET r == analysis.keyword_analysis.volume.result IN
       IF Has(r, "volume") /\ r.volume # 0
       THEN << [ rule |-> "volume", text |-> toLocaleString(r.volume) ] >>
       ELSE << >>
  ELSE << >>

\* Variant: a competitor with the primary site's value counts on both sides
ComparedInclusive(analysis, cmp) ==
  LET pd == analysis.primary_site_data
      primaryBA == IF Has(pd, "brand_authority")
                   THEN ResultField(pd.brand_authority, "brand_authority")
                   ELSE {}
      compBA(i) == IF Has(analysis.competitor_data[i], "brand_authority")
                   THEN ResultField(analysis.competitor_data[i].brand_authority,
                                    "brand_authority")
                   ELSE {}
  IN  { i \in 1..Len(analysis.competitor_data) :
          \E p \in primaryBA, c \in compBA(i) :
            /\ p # 0 /\ c # 0
            /\ IF cmp = 1 THEN c >= p ELSE c <= p }

\* The competitors counted as stronger (cmp = 1) or weaker (cmp = -1).
Compared(analysis, cmp) ==
  LET pd == analysis.primary_site_data
      primaryBA == IF Has(pd, "brand_authority")
                   THEN ResultField(pd.brand_authority, "brand_authority")
                   ELSE {}
      compBA(i) == IF Has(analysis.competitor_data[i], "brand_authority")
                   THEN ResultField(analysis.competitor_data[i].brand_authority,
                                    "brand_authority")
                   ELSE {}
  IN  { i \in 1..Len(analysis.competitor_data) :
          \E p \in primaryBA, c \in compBA(i) :
            /\ p # 0 /\ c # 0
            /\ IF cmp = 1 THEN c > p ELSE c < p }

CompetitorInsight(analysis) ==
  IF Len(analysis.competitor_data) > 0
  THEN LET strongerCompetitors == Cardinality(Compared(analysis, 1))
           weakerCompetitors == Cardinality(Compared(analysis, -1)) IN
       IF strongerCompetitors > 0 \/ weakerCompetitors > 0
       THEN << [ rule |-> "competitive_landscape",
                 stronger |-> strongerCompetitors,
                 weaker |-> weakerCompetitors ] >>
       ELSE << >>
  ELSE << >>

\* Variant: the keyword must equal the target, whatever the case
KeywordTestExact(kw, target) ==
  IF Has(kw, "null") THEN "throw"
  ELSE IF ~Has(kw, "keyword") THEN "skip"
  ELSE IF Has(kw.keyword, "str")
       THEN IF kw.keyword.str # << >>
               /\ toLowerCase(kw.keyword.str) = toLowerCase(target)
            THEN "match" ELSE "skip"
       ELSE IF kw.keyword.num = 0 THEN "skip" ELSE "throw"

\* kw.keyword && kw.keyword.toLowerCase().includes(target.toLowerCase()):
\* "match", "skip", or "throw" (an entry that is null, or whose keyword is a
\* truthy value that is not a string).
KeywordTest(kw, target) ==
  IF Has(kw, "null") THEN "throw"
  ELSE IF ~Has(kw, "keyword") THEN "skip"
  ELSE IF Has(kw.keyword, "str")
       THEN IF kw.keyword.str # << >>
               /\ includes(toLowerCase(kw.keyword.str), toLowerCase(target))
            THEN "match" ELSE "skip"
       ELSE IF kw.keyword.num = 0 THEN "skip" ELSE "throw"

RECURSIVE Find(_, _, _)
\* Array.prototype.find from position i: the entry found, none, or a throw
Find(items, target, i) ==
  IF i > Len(items) THEN [ outcome |-> "none" ]
  ELSE LET t == KeywordTest(items[i], target) IN
       IF t = "throw" THEN [ outcome |-> "throw" ]
       ELSE IF t = "match" THEN [ outcome |-> "found", entry |-> items[i] ]
       ELSE Find(items, target, i + 1)

\* The lines of the ranking-keyword rule and whether it threw.
RankingInsight(analysis) ==
  IF Has(analysis.primary_site_data, "ranking_keywords")
     /\ Has(analysis.primary_site_data.ranking_keywords, "result")
  THEN LET keywords == analysis.primary_site_data.ranking_keywords.result IN
       IF Has(keywords, "length") /\ keywords.length # 0
       THEN LET count == << [ rule |-> "ranking_count",
                              count |-> keywords.length ] >> IN
            IF ~Has(keywords, "items")
            THEN [ threw |-> TRUE, lines |-> count ]
            ELSE LET targetFound ==
                       Find(keywords.items, analysis.target_keyword, 1) IN
                 IF targetFound.outcome = "throw"
                 THEN [ threw |-> TRUE, lines |-> count ]
                 ELSE IF targetFound.outcome = "found"
                 THEN [ threw |-> FALSE, lines |-> count \o
                        << [ rule |-> "ranks_for_target",
                             keyword |-> analysis.target_keyword,
                             position |->
                               IF Has(targetFound.entry, "rank")
                                  /\ targetFound.entry.rank # 0
                               THEN [rank |-> targetFound.entry.rank]
                               ELSE [text |-> "unknown"] ] >> ]
                 ELSE [ threw |-> FALSE, lines |-> count \o
                        << [ rule |-> "not_ranking",
                             keyword |-> analysis.target_keyword ] >> ]
       ELSE [ threw |-> FALSE, lines |-> << >> ]
  ELSE [ threw |-> FALSE, lines |-> << >> ]

\* Variant: on a fault the note replaces the lines pushed so far
generateCompetitorInsightsReplaced(analysis) ==
  LET ranking == RankingInsight(analysis)
      insights == BrandAuthorityInsight(analysis) \o DifficultyInsight(analysis)
                  \o VolumeInsight(analysis) \o CompetitorInsight(analysis)
                  \o ranking.lines
  IN  IF ranking.threw
      THEN << [ rule |-> "fallback_note" ] >>
      ELSE insights

generateCompetitorInsights(analysis) ==
  LET ranking == RankingInsight(analysis)
      insights == BrandAuthorityInsight(analysis) \o DifficultyInsight(analysis)
                  \o VolumeInsight(analysis) \o CompetitorInsight(analysis)
                  \o ranking.lines
  IN  IF ranking.threw
      THEN insights \o << [ rule |-> "fallback_note" ] >>
      ELSE insights


(* ------------------------------- state --------------------------------- *)
VARIABLES
  token,      \* the credential string handed to the constructor
  client,     \* the fields of the MozApiClient instance (<< >> before construction)
  pc,         \* where the operation under way stands
  args,       \* the arguments of the operation under way
  phase,      \* getCompetitorAnalysis: the batch under way
  idx,        \* getCompetitorAnalysis: position in competitorSites
  promises,   \* the promises of the batch under way, in array order
  analysis,   \* getCompetitorAnalysis: the report being assembled
  sent,       \* every post handed to the transport, in order of issue
  replies,    \* for each post of `sent`: "pending", "ok" or "failed"
  delivered,  \* the reply the transport gave to a wrapper called on its own
  outcome,    \* how the operation ended (<< >> while it has not)
  tool,       \* the tool request the dispatch handler is serving (<< >> if none)
  response,   \* how the dispatch handler ended (<< >> while it has not)
  other       \* the locals of a second invocation, suspended at its await

vars == << token, client, pc, args, phase, idx, promises, analysis, sent,
           replies, delivered, outcome, tool, response, other >>

\* how many remote calls have failed
failed == Cardinality({ i \in 1..Len(replies) : replies[i] = "failed" })

(* ------------------------ getCompetitorAnalysis ------------------------ *)
\* The credential of the client that runs the analysis: base64 of `b:"`.
AnalysisCredential == << "Y", "j", "o", "i" >>

OptionChoices ==
  { << >>, [include_keyword_analysis |-> FALSE],
    [include_keyword_analysis |-> TRUE] }

\* The competitor lists: the sites of the pool in turn, from any of them.
CompetitorLists ==
  { l \in SeqsUpTo(CompetitorPool, MaxCompetitors) :
      \A i \in 1..(Len(l) - 1) : l[i] # l[i + 1] }

Invocations ==
  { [ primarySite |-> PrimarySite, targetKeyword |-> TargetKeyword,
      options |-> o ] @@ c :
      o \in OptionChoices,
      c \in { << >> } \cup { [competitorSites |-> l] : l \in CompetitorLists } }

\* competitorSites: string[] = []
competitorSites(a) == IF Has(a, "competitorSites") THEN a.competitorSites ELSE << >>

locale(a) == OrDefault(a.options, "locale", "en-US")

\* Variant: options?.include_keyword_analysis === true
includeKeywordAnalysisStrict(a) ==
  Has(a.options, "include_keyword_analysis")
  /\ a.options.include_keyword_analysis = TRUE

\* options?.include_keyword_analysis !== false
includeKeywordAnalysis(a) ==
  ~(Has(a.options, "include_keyword_analysis")
    /\ a.options.include_keyword_analysis = FALSE)

\* Variant: the ranking-keyword call is made a second time
SiteCallsRepeated(site, a) ==
  << [ wrapper |-> "getSiteMetrics", site |-> site ],
     [ wrapper |-> "getSiteBrandAuthority", site |-> site ],
     [ wrapper |-> "getSiteRankingKeywords", site |-> site,
       options |-> [locale |-> locale(a), limit |-> 100] ],
     [ wrapper |-> "getSiteRankingKeywords", site |-> site,
       options |-> [locale |-> locale(a), limit |-> 100] ] >>

SiteCalls(site, a) ==
  << [ wrapper |-> "getSiteMetrics", site |-> site ],
     [ wrapper |-> "getSiteBrandAuthority", site |-> site ],
     [ wrapper |-> "getSiteRankingKeywords", site |-> site,
       options |-> [locale |-> locale(a), limit |-> 100] ] >>

KeywordCalls(a) ==
  LET o == [locale |-> locale(a)] IN
  << [ wrapper |-> "getKeywordMetrics", keyword |-> a.targetKeyword, options |-> o ],
     [ wrapper |-> "getKeywordDifficulty", keyword |-> a.targetKeyword, options |-> o ],
     [ wrapper |-> "getKeywordVolume", keyword |-> a.targetKeyword, options |-> o ],
     [ wrapper |-> "getKeywordSearchIntent", keyword |-> a.targetKeyword,
       options |-> o ] >>

\* The array of calls of the batch under way.
BatchCalls ==
  CASE phase = "primary" -> SiteCalls(args.primarySite, args)
    [] phase = "competitor" -> SiteCalls(competitorSites(args)[idx], args)
    [] phase = "keyword" -> KeywordCalls(args)

\* Variant: the wrapper's promise without its .catch
Unguarded(settlement) == settlement

\* .catch(e => ({ error: e.message })) on the promise a wrapper returned
Guarded(settlement) ==
  IF settlement.state = "rejected"
  THEN [ state |-> "fulfilled", value |-> [error |-> settlement.reason.message] ]
  ELSE settlement

\* Variant: Promise.race-like, over as soon as one promise is settled.
PromiseAny(ps) ==
  IF \E i \in 1..Len(ps) : ps[i].state = "rejected"
  THEN [ state |-> "rejected",
         reason |-> ps[CHOOSE i \in 1..Len(ps) : ps[i].state = "rejected"].reason ]
  ELSE IF \E i \in 1..Len(ps) : ps[i].state = "fulfilled"
       THEN [ state |-> "fulfilled",
              values |-> [ i \in 1..Len(ps) |->
                             IF ps[i].state = "fulfilled" THEN ps[i].value
                             ELSE [undefined |-> TRUE] ] ]
       ELSE [ state |-> "pending" ]

\* Variant: the batch is given up on once all its promises but one are settled
PromiseAllButOne(ps) ==
  LET settled == { i \in 1..Len(ps) : ps[i].state = "fulfilled" } IN
  IF \E i \in 1..Len(ps) : ps[i].state = "rejected"
  THEN [ state |-> "rejected",
         reason |-> ps[CHOOSE i \in 1..Len(ps) : ps[i].state = "rejected"].reason ]
  ELSE IF Cardinality(settled) + 1 >= Len(ps)
       THEN [ state |-> "fulfilled",
              values |-> [ i \in 1..Len(ps) |->
                             IF i \in settled THEN ps[i].value
                             ELSE [undefined |-> TRUE] ] ]
       ELSE [ state |-> "pending" ]

\* Variant: a batch with a failed call is never over
PromiseAllOfResults(ps) ==
  IF \E i \in 1..Len(ps) : ps[i].state = "rejected"
  THEN [ state |-> "rejected",
         reason |-> ps[CHOOSE i \in 1..Len(ps) : ps[i].state = "rejected"].reason ]
  ELSE IF \A i \in 1..Len(ps) :
            ps[i].state = "fulfilled" /\ ~Has(ps[i].value, "error")
       THEN [ state |-> "fulfilled", values |-> [i \in 1..Len(ps) |-> ps[i].value] ]
       ELSE [ state |-> "pending" ]

\* Promise.all: rejected as soon as one promise is, fulfilled once all are.
PromiseAll(ps) ==
  IF \E i \in 1..Len(ps) : ps[i].state = "rejected"
  THEN [ state |-> "rejected",
         reason |-> ps[CHOOSE i \in 1..Len(ps) : ps[i].state = "rejected"].reason ]
  ELSE IF \A i \in 1..Len(ps) : ps[i].state = "fulfilled"
       THEN [ state |-> "fulfilled", values |-> [i \in 1..Len(ps) |-> ps[i].value] ]
       ELSE [ state |-> "pending" ]

Guidance ==
  [ message |-> "No competitors were specified", suggestions |-> 4,
    note |-> "Moz API does not automatically identify competitors" ]

\* throw new Error(`Competitor analysis failed: ${...}`)
AnalysisFailure(reason) ==
  [ raised |-> [ message |-> [ prefix |-> "Competitor analysis failed",
                               cause |-> reason.message ] ] ]

\* Lines 452-466: the invocation and the fresh report.
Invoke(a) ==
  /\ pc = "idle"
  /\ args' = a
  /\ analysis' = [ primary_site |-> a.primarySite,
                   target_keyword |-> a.targetKeyword,
                   locale |-> locale(a),
                   analysis_timestamp |-> "now",
                   primary_site_data |-> << >>,
                   competitor_data |-> << >>,
                   keyword_analysis |-> << >>,
                   insights |-> << >> ]
  /\ phase' = "primary"
  /\ idx' = 0
  /\ promises' = << >>
  /\ pc' = "issue"
  /\ UNCHANGED << other, tool, response, token, client, delivered, sent, replies, outcome >>

\* The array of guarded calls is built whole before Promise.all is awaited.
AfterIssue(k, n) == IF k = n THEN "await" ELSE "issue"

\* One element of the array of guarded calls: the wrapper builds its request
\* and sendRequest posts it; the array is complete before the await.
IssueCall ==
  /\ pc = "issue"
  /\ LET k == Len(promises) + 1
         request == WrapperRequest(BatchCalls[k]) IN
     /\ promises' = Append(promises, [ request |-> request,
                                       post |-> Len(sent) + 1,
                                       state |-> "pending" ])
     /\ sent' = Append(sent, Outbound(client, request))
     /\ replies' = Append(replies, "pending")
     /\ pc' = AfterIssue(k, Len(BatchCalls))
  /\ UNCHANGED << other, tool, response, token, client, delivered, args, phase, idx, analysis, outcome >>

\* The post of call k settles; sendRequest and the guard turn the reply into
\* the settlement of the k-th promise of the array.
SettleCall(k, reply) ==
  /\ pc = "await"
  /\ promises[k].state = "pending"
  /\ IsFailure(reply) => failed < MaxFailures
  /\ promises' = [ promises EXCEPT
                     ![k] = [ request |-> promises[k].request,
                              post |-> promises[k].post ]
                            @@ Guarded(sendRequest(reply)) ]
  /\ replies' = [ replies EXCEPT ![promises[k].post] =
                                   IF IsFailure(reply) THEN "failed" ELSE "ok" ]
  /\ UNCHANGED << other, tool, response, token, client, delivered, pc, args, phase, idx, analysis, sent,
                 outcome >>

Settle ==
  \E k \in 1..Len(promises) :
    \E reply \in AnalysisReplies(promises[k].request) : SettleCall(k, reply)

\* Lines 478-482.
PrimarySiteData(values) ==
  [ site_metrics |-> values[1],
    brand_authority |-> values[2],
    ranking_keywords |-> values[3] ]

\* Variant: the brand-authority and site-metrics values in each other's slot
CompetitorEntrySwapped(competitor, values) ==
  [ site |-> competitor,
    site_metrics |-> values[2],
    brand_authority |-> values[1],
    ranking_keywords |-> values[3] ]

\* Lines 498-503.
CompetitorEntry(competitor, values) ==
  [ site |-> competitor,
    site_metrics |-> values[1],
    brand_authority |-> values[2],
    ranking_keywords |-> values[3] ]

\* Lines 505-508.
FailedEntry(competitor, reason) ==
  [ site |-> competitor,
    error |-> [ prefix |-> "Failed to analyze", cause |-> reason ] ]

\* Variant: unshift instead of push
PushFront(list, entry) == << entry >> \o list

\* analysis.competitor_data.push(entry)
Push(list, entry) == Append(list, entry)

\* Lines 525-531.
KeywordAnalysis(keyword, values) ==
  [ keyword |-> keyword,
    metrics |-> values[1],
    difficulty |-> values[2],
    volume |-> values[3],
    search_intent |-> values[4] ]

\* Variant: the guidance test inverted
NeedsGuidanceInverted(sites) == Len(sites) > 0

\* Line 538: competitorSites.length === 0
NeedsGuidance(sites) == Len(sites) = 0

\* Variant: without keyword analysis the insights step is passed over
AfterCompetitorsNoInsights ==
  /\ phase' = IF includeKeywordAnalysis(args) THEN "keyword" ELSE "done"
  /\ pc' = IF includeKeywordAnalysis(args) THEN "issue" ELSE "guidance"

\* Where the operation goes once the competitors are done (lines 513-514).
AfterCompetitors ==
  /\ phase' = IF includeKeywordAnalysis(args) THEN "keyword" ELSE "done"
  /\ pc' = IF includeKeywordAnalysis(args) THEN "issue" ELSE "insights"

\* Lines 476-488: the primary batch is over.
ResumePrimary ==
  /\ pc = "await" /\ phase = "primary"
  /\ LET all == PromiseAll(promises) IN
     /\ all.state # "pending"
     /\ IF all.state = "fulfilled"
        THEN /\ analysis' = [ analysis EXCEPT !.primary_site_data =
                                                 PrimarySiteData(all.values) ]
             /\ promises' = << >>
             /\ IF Len(competitorSites(args)) > 0
                THEN phase' = "competitor" /\ idx' = 1 /\ pc' = "issue"
                ELSE AfterCompetitors /\ idx' = idx
             /\ outcome' = outcome
        ELSE /\ outcome' = AnalysisFailure(all.reason)
             /\ pc' = "raised"
             /\ UNCHANGED << analysis, promises, phase, idx >>
  /\ UNCHANGED << other, tool, response, token, client, delivered, args, sent, replies >>

\* Lines 496-510: the batch of competitor idx is over.
ResumeCompetitor ==
  /\ pc = "await" /\ phase = "competitor"
  /\ LET all == PromiseAll(promises)
         competitor == competitorSites(args)[idx]
         entry == IF all.state = "fulfilled"
                  THEN CompetitorEntry(competitor, all.values)
                  ELSE FailedEntry(competitor, all.reason)
     IN
     /\ all.state # "pending"
     /\ analysis' = [ analysis EXCEPT !.competitor_data = Push(@, entry) ]
     /\ promises' = << >>
     /\ IF idx < Len(competitorSites(args))
        THEN phase' = phase /\ idx' = idx + 1 /\ pc' = "issue"
        ELSE AfterCompetitors /\ idx' = idx
  /\ UNCHANGED << other, tool, response, token, client, delivered, args, sent, replies, outcome >>

\* Lines 523-532: the keyword batch is over.
ResumeKeyword ==
  /\ pc = "await" /\ phase = "keyword"
  /\ LET all == PromiseAll(promises) IN
     /\ all.state # "pending"
     /\ IF all.state = "fulfilled"
        THEN /\ analysis' = [ analysis EXCEPT !.keyword_analysis =
                                KeywordAnalysis(args.targetKeyword, all.values) ]
             /\ promises' = << >>
             /\ phase' = "done"
             /\ pc' = "insights"
             /\ outcome' = outcome
        ELSE /\ outcome' = AnalysisFailure(all.reason)
             /\ pc' = "raised"
             /\ UNCHANGED << analysis, promises, phase >>
  /\ UNCHANGED << other, tool, response, token, client, delivered, args, idx, sent, replies >>

\* Line 535.
GenerateInsights ==
  /\ pc = "insights"
  /\ analysis' = [ analysis EXCEPT !.insights = generateCompetitorInsights(analysis) ]
  /\ pc' = "guidance"
  /\ UNCHANGED << other, tool, response, token, client, delivered, args, phase, idx, promises, sent,
                 replies, outcome >>

\* Lines 538-551.
Return ==
  /\ pc = "guidance"
  /\ analysis' = IF NeedsGuidance(competitorSites(args))
                 THEN analysis @@ [ competitor_identification_guidance |-> Guidance ]
                 ELSE analysis
  /\ outcome' = [ returned |-> analysis' ]
  /\ pc' = "returned"
  /\ UNCHANGED << other, tool, response, token, client, delivered, args, phase, idx,
                  promises, sent, replies >>

Init ==
  /\ token = AnalysisCredential
  /\ client = constructor(token).client
  /\ pc = "idle"
  /\ args = << >>
  /\ phase = "none"
  /\ idx = 0
  /\ promises = << >>
  /\ analysis = << >>
  /\ sent = << >>
  /\ replies = << >>
  /\ delivered = << >>
  /\ outcome = << >>
  /\ tool = << >>
  /\ response = << >>
  /\ other = << >>

Next ==
  \/ \E a \in Invocations : Invoke(a)
  \/ IssueCall
  \/ Settle
  \/ ResumePrimary
  \/ ResumeCompetitor
  \/ ResumeKeyword
  \/ GenerateInsights
  \/ Return

Spec == Init /\ [][Next]_vars


(* ------------------ properties of getCompetitorAnalysis ---------------- *)
Returned == pc = "returned"

Report == outcome.returned

\* The calls one invocation makes, in the order of their slots in the report.
ExpectedCalls(a) ==
  LET L == competitorSites(a)
      RECURSIVE Upto(_)
      Upto(i) == IF i = 0 THEN SiteCalls(a.primarySite, a)
                 ELSE Upto(i - 1) \o SiteCalls(L[i], a)
  IN  Upto(Len(L)) \o (IF includeKeywordAnalysis(a) THEN KeywordCalls(a) ELSE << >>)

\* The slots of a report, in the same order.
Slots(report) ==
  LET pd == report.primary_site_data
      cd == report.competitor_data
      ka == report.keyword_analysis
      RECURSIVE Upto(_)
      Upto(i) == IF i = 0
                 THEN << pd.site_metrics, pd.brand_authority, pd.ranking_keywords >>
                 ELSE Upto(i - 1) \o << cd[i].site_metrics, cd[i].brand_authority,
                                        cd[i].ranking_keywords >>
  IN  Upto(Len(cd)) \o (IF Has(ka, "metrics")
                        THEN << ka.metrics, ka.difficulty, ka.volume,
                                ka.search_intent >>
                        ELSE << >>)

\* The marker a failed call leaves, and the value a successful call leaves.
ErrorMarker(call) ==
  [ error |-> sendRequest(FailureReply(WrapperRequest(call))).reason.message ]

OwnResult(call) == RemoteResult(WrapperRequest(call))

IsErrorMarker(slot) == DOMAIN slot = {"error"}

\* C1: the report's competitor_data has one entry per competitor of the
\* list given by the caller, in the caller's order, whatever the outcome of
\* the remote calls.
C1_CompetitorOrder ==
  Returned =>
    LET L == competitorSites(args)
        cd == Report.competitor_data IN
    /\ Len(cd) = Len(L)
    /\ \A i \in 1..Len(L) : cd[i].site = L[i]

C1_Witness ==
  /\ Returned
  /\ Len(competitorSites(args)) = 2
  /\ competitorSites(args)[1] # competitorSites(args)[2]
  /\ replies[5] = "failed" /\ replies[8] = "ok"

\* C2: no combination of failing remote calls makes the operation raise:
\* no promise of a batch is ever rejected, the operation never ends by
\* raising, and when it has ended it has returned a report.
C2_NeverRaises ==
  /\ pc # "raised"
  /\ ~Has(outcome, "raised")
  /\ \A i \in 1..Len(promises) : promises[i].state # "rejected"
  /\ (Returned => Has(outcome, "returned"))

C2_Witness ==
  /\ Returned
  /\ IsErrorMarker(Report.primary_site_data.site_metrics)
  /\ Len(Report.competitor_data) > 0
  /\ IsErrorMarker(Report.competitor_data[1].brand_authority)
  /\ Has(Report.keyword_analysis, "volume")
  /\ IsErrorMarker(Report.keyword_analysis.volume)

\* C3: every slot of the report holds the outcome of its own call: the
\* error marker of that call if it failed, its result otherwise; a failure
\* marks no other slot.
C3_FailureIsolation ==
  Returned =>
    LET calls == ExpectedCalls(args)
        slots == Slots(Report) IN
    /\ Len(slots) = Len(calls)
    /\ Len(replies) = Len(calls)
    /\ \A i \in 1..Len(calls) :
         /\ sent[i].body = WrapperRequest(calls[i])
         /\ slots[i] = IF replies[i] = "failed" THEN ErrorMarker(calls[i])
                       ELSE OwnResult(calls[i])

C3_Witness ==
  /\ Returned
  /\ competitorSites(args) = << "c1.com", "c2.com" >>
  /\ \A i \in 4..6 : replies[i] = "failed"
  /\ \A i \in 7..9 : replies[i] = "ok"
  /\ \A f \in {"site_metrics", "brand_authority", "ranking_keywords"} :
       /\ IsErrorMarker(Report.competitor_data[1][f])
       /\ ~IsErrorMarker(Report.competitor_data[2][f])

\* The posts of competitor i of the list (the primary site has posts 1..3).
PostsOf(i) == (3 * i + 1)..(3 * i + 3)

\* C4: no call for competitor i+1 is issued before the three calls for
\* competitor i have settled, and no call of a competitor settles or is
\* awaited before all three calls of that competitor have been issued.
C4_BatchOrder ==
  LET L == competitorSites(args) IN
  /\ \A i \in 1..(Len(L) - 1) :
       Len(sent) > 3 * (i + 1) => \A j \in PostsOf(i) : replies[j] # "pending"
  /\ \A i \in 1..Len(L) :
       \A j \in PostsOf(i) :
         (j <= Len(sent) /\ replies[j] # "pending") => Len(sent) >= 3 * i + 3
  /\ (pc = "await" /\ phase = "competitor") => Len(promises) = 3

C4_Witness ==
  /\ pc = "await" /\ phase = "competitor" /\ idx = 2
  /\ Len(sent) = 9
  /\ replies[7] = "pending" /\ replies[8] = "failed" /\ replies[9] = "ok"

\* C5: with an empty competitor list the report carries the guidance block
\* and none of its insights is the competitor comparison.
C5_EmptyCompetitorList ==
  (Returned /\ Len(competitorSites(args)) = 0) =>
    /\ Has(Report, "competitor_identification_guidance")
    /\ Report.competitor_identification_guidance = Guidance
    /\ \A i \in 1..Len(Report.insights) :
         Report.insights[i].rule # "competitive_landscape"

C5_Witness ==
  /\ Returned
  /\ Has(args, "competitorSites") /\ args.competitorSites = << >>
  /\ Len(Report.insights) > 0
  /\ Report.insights[1].rule = "brand_authority"

\* C6 as claimed: without keyword analysis the report has no keyword_analysis
\* field, and with it the field holds the four slots.
C6_AsClaimed ==
  Returned =>
    IF Has(args.options, "include_keyword_analysis")
       /\ args.options.include_keyword_analysis = FALSE
    THEN ~Has(Report, "keyword_analysis")
    ELSE {"metrics", "difficulty", "volume", "search_intent"}
           \subseteq DOMAIN Report.keyword_analysis

\* C6, amended: without keyword analysis the report's keyword_analysis is
\* the empty object it was initialised to; when the option is true or
\* omitted it holds keyword, metrics, difficulty, volume and search_intent.
C6_KeywordAnalysisField ==
  Returned =>
    /\ Has(Report, "keyword_analysis")
    /\ IF Has(args.options, "include_keyword_analysis")
          /\ args.options.include_keyword_analysis = FALSE
       THEN DOMAIN Report.keyword_analysis = {}
       ELSE DOMAIN Report.keyword_analysis =
              {"keyword", "metrics", "difficulty", "volume", "search_intent"}

C6_Witness ==
  /\ Returned
  /\ Has(args.options, "include_keyword_analysis")
  /\ args.options.include_keyword_analysis = FALSE
  /\ Len(competitorSites(args)) = 1
  /\ Report.keyword_analysis = << >>

\* the number of calls one invocation makes
TotalCalls(a) ==
  3 + 3 * Len(competitorSites(a)) + (IF includeKeywordAnalysis(a) THEN 4 ELSE 0)

\* C19: an invocation with n competitors posts 3 + 3n calls when keyword
\* analysis is off and 3 + 3n + 4 when it is on or not said: three per site
\* batch and four for the keyword batch.  The post made last is always the
\* next call of that list whatever failed before it, so no call is posted a
\* second time.
C19_CallCount ==
  pc # "idle" =>
    LET n == Len(competitorSites(args))
        calls == ExpectedCalls(args) IN
    /\ Len(replies) = Len(sent)
    /\ Len(sent) <= TotalCalls(args)
    /\ phase = "primary" => Len(sent) <= 3
    /\ phase = "competitor" => Len(sent) <= 3 + 3 * idx
    /\ phase = "keyword" => Len(sent) <= 3 + 3 * n + 4
    /\ pc \in { "insights", "guidance", "returned" } =>
         Len(sent) = TotalCalls(args)
    /\ Returned =>
         Len(sent) = IF Has(args.options, "include_keyword_analysis")
                        /\ args.options.include_keyword_analysis = FALSE
                     THEN 3 + 3 * n ELSE 3 + 3 * n + 4
    /\ Len(sent) > 0 =>
         sent[Len(sent)].body = WrapperRequest(calls[Len(sent)])

C19_Witness ==
  /\ Returned
  /\ Len(competitorSites(args)) = 2
  /\ ~Has(args.options, "include_keyword_analysis")
  /\ Len(sent) = 13
  /\ replies[2] = "failed" /\ replies[6] = "failed" /\ replies[11] = "failed"

\* C20: no competitor call is posted before the three calls of the primary
\* site have settled; no keyword call is posted before every site call has
\* settled; the insights are generated only once every call posted has
\* settled, and the report returned holds the insights generated from it.
C20_PhaseOrder ==
  pc # "idle" =>
    LET n == Len(competitorSites(args)) IN
    /\ Len(sent) > 3 => \A j \in 1..3 : replies[j] # "pending"
    /\ Len(sent) > 3 + 3 * n => \A j \in 1..(3 + 3 * n) : replies[j] # "pending"
    /\ pc \in { "insights", "guidance", "returned" } =>
         /\ Len(sent) = TotalCalls(args)
         /\ \A j \in 1..Len(sent) : replies[j] # "pending"
    /\ pc \notin { "guidance", "returned" } => analysis.insights = << >>
    /\ pc \in { "guidance", "returned" } =>
         analysis.insights =
           generateCompetitorInsights([ analysis EXCEPT !.insights = << >> ])
    /\ Returned => Report = analysis

C20_Witness ==
  /\ Returned
  /\ competitorSites(args) = << "c2.com" >>
  /\ Has(args.options, "include_keyword_analysis")
  /\ args.options.include_keyword_analysis = FALSE
  /\ replies[4] = "failed" /\ replies[5] = "ok"
  /\ Len(Report.insights) = 4


\* the last post of the batch that site post j belongs to
BatchEnd(j) == 3 * ((j + 2) \div 3)

\* C21: while a call that was posted has not settled, the invocation stays
\* inside the batch of that call: it has neither returned nor raised, the
\* call is one of the promises the await is waiting for, and, if it is a
\* call of the primary site or of a competitor, no call of a later
\* competitor and no keyword call has been posted.  A call that never settles
\* therefore keeps the invocation there for ever.
C21_PendingBlocks ==
  \A j \in 1..Len(replies) :
    replies[j] = "pending" =>
      LET n == Len(competitorSites(args)) IN
      /\ pc \in { "issue", "await" }
      /\ outcome = << >>
      /\ \E k \in 1..Len(promises) :
           promises[k].post = j /\ promises[k].state = "pending"
      /\ j <= 3 + 3 * n => Len(sent) <= BatchEnd(j)
      /\ j > 3 + 3 * n => Len(sent) <= 3 + 3 * n + 4

C21_Witness ==
  /\ pc = "await" /\ phase = "competitor" /\ idx = 1
  /\ competitorSites(args) = << "c1.com", "c2.com" >>
  /\ ~Has(args.options, "include_keyword_analysis")
  /\ replies = << "ok", "failed", "ok", "ok", "pending", "failed" >>
  /\ PromiseAll(promises).state = "pending"


(* ------------- getCompetitorAnalysis when every call settles ----------- *)
\* The invocation's own code around its awaits: the calls of a batch up to
\* the await, the code after an await whose Promise.all is settled, and the
\* return.
Step ==
  \/ IssueCall
  \/ ResumePrimary
  \/ ResumeCompetitor
  \/ ResumeKeyword
  \/ Return

\* generateCompetitorInsights is synchronous and has no loop but the ones
\* over its finite inputs: the invocation does not stay at line 535.
InsightsComplete == []<>(pc # "insights")

\* The runtime runs the code of the invocation whenever it can run.
Scheduling == WF_vars(Step) /\ InsightsComplete

\* A remote call that was issued and is awaited eventually settles.
EveryCallSettles == WF_vars(Settle)

\* The invocations followed to their end: every length of competitor list,
\* keyword analysis left on or turned off.
SettlingInvocations ==
  { a \in Invocations :
      /\ Has(a.options, "include_keyword_analysis") =>
           a.options.include_keyword_analysis = FALSE
      /\ Len(competitorSites(a)) > 0 => competitorSites(a)[1] = "c1.com" }

NextSettling ==
  \/ \E a \in SettlingInvocations : Invoke(a)
  \/ IssueCall
  \/ Settle
  \/ ResumePrimary
  \/ ResumeCompetitor
  \/ ResumeKeyword
  \/ GenerateInsights
  \/ Return

SpecSettling ==
  Init /\ [][NextSettling]_vars /\ Scheduling /\ EveryCallSettles

\* C22: when every call issued settles, an invocation, whatever its
\* competitor list and whichever of its calls fail, eventually returns a
\* report.
C22_Termination ==
  (pc # "idle") ~> (pc = "returned" /\ Has(outcome, "returned"))

C22_Witness ==
  /\ pc = "returned"
  /\ Has(outcome, "returned")
  /\ Len(competitorSites(args)) = MaxCompetitors
  /\ includeKeywordAnalysis(args)
  /\ \A j \in 1..Len(replies) : replies[j] # "pending"
  /\ failed = MaxFailures
  /\ Len(outcome.returned.competitor_data) = MaxCompetitors


(* -------------- two invocations under way on the same client ----------- *)
\* The locals of the invocation that is running: each invocation has its own
\* parameters, loop position, promise array and `analysis` object (lines
\* 443-466); the client and the transport are shared.
Locals ==
  [ pc |-> pc, args |-> args, phase |-> phase, idx |-> idx,
    promises |-> promises, analysis |-> analysis, outcome |-> outcome ]

\* Variant: the report under assembly is kept in one place for all invocations
RestoreShared(field) == IF field = "analysis" THEN analysis ELSE other[field]

\* A local of the suspended invocation, as it left it.
Restore(field) == other[field]

\* Pairs of analyses of different sites and keywords: one with the keyword
\* batch beside one of a single site, and one with a competitor beside one
\* of a single site.
ConcurrentPairs ==
  { { [ primarySite |-> "example.com", targetKeyword |-> TargetKeyword,
        options |-> << >> ],
      [ primarySite |-> "c2.com", targetKeyword |-> << "a", "d", "s" >>,
        options |-> [include_keyword_analysis |-> FALSE] ] },
    { [ primarySite |-> "c2.com", targetKeyword |-> << "a", "d", "s" >>,
        competitorSites |-> << "c1.com" >>,
        options |-> [include_keyword_analysis |-> FALSE] ],
      [ primarySite |-> "example.com", targetKeyword |-> TargetKeyword,
        competitorSites |-> << >>,
        options |-> [include_keyword_analysis |-> FALSE] ] } }

ConcurrentInvocations == UNION ConcurrentPairs

\* An invocation starts; the one already under way, if any, is the other one
\* of its pair.
Start(a) ==
  /\ other.pc # "idle" => { a, other.args } \in ConcurrentPairs
  /\ Invoke(a)

\* While the running invocation is suspended at an await (or has not started,
\* or is over) the runtime runs the other one.
Switch ==
  /\ pc \in { "idle", "await", "returned", "raised" }
  /\ other' = Locals
  /\ pc' = Restore("pc")
  /\ args' = Restore("args")
  /\ phase' = Restore("phase")
  /\ idx' = Restore("idx")
  /\ promises' = Restore("promises")
  /\ analysis' = Restore("analysis")
  /\ outcome' = Restore("outcome")
  /\ UNCHANGED << tool, response, token, client, delivered, sent, replies >>

InitConcurrent ==
  /\ token = AnalysisCredential
  /\ client = constructor(token).client
  /\ pc = "idle"
  /\ args = << >>
  /\ phase = "none"
  /\ idx = 0
  /\ promises = << >>
  /\ analysis = << >>
  /\ sent = << >>
  /\ replies = << >>
  /\ delivered = << >>
  /\ outcome = << >>
  /\ tool = << >>
  /\ response = << >>
  /\ other = Locals

NextConcurrent ==
  \/ \E a \in ConcurrentInvocations : Start(a)
  \/ Switch
  \/ IssueCall
  \/ Settle
  \/ ResumePrimary
  \/ ResumeCompetitor
  \/ ResumeKeyword
  \/ GenerateInsights
  \/ Return

SpecConcurrent == InitConcurrent /\ [][NextConcurrent]_vars

\* the post that carried a call
PostOf(call) ==
  CHOOSE j \in 1..Len(sent) : sent[j].body = WrapperRequest(call)

\* The report an invocation returned is about its own sites and keyword, and
\* each slot holds the outcome of the invocation's own call.
OwnReport(inv) ==
  LET a == inv.args
      report == inv.outcome.returned
      calls == ExpectedCalls(a)
      slots == Slots(report) IN
  /\ report.primary_site = a.primarySite
  /\ report.target_keyword = a.targetKeyword
  /\ Len(report.competitor_data) = Len(competitorSites(a))
  /\ \A i \in 1..Len(competitorSites(a)) :
       report.competitor_data[i].site = competitorSites(a)[i]
  /\ Has(report.keyword_analysis, "keyword") =>
       report.keyword_analysis.keyword = a.targetKeyword
  /\ Len(slots) = Len(calls)
  /\ \A i \in 1..Len(calls) :
       /\ \E j \in 1..Len(sent) : sent[j].body = WrapperRequest(calls[i])
       /\ slots[i] = IF replies[PostOf(calls[i])] = "failed"
                     THEN ErrorMarker(calls[i])
                     ELSE OwnResult(calls[i])

\* C23: with two invocations under way on one client, whatever the order in
\* which their calls settle, the report each returns holds its own sites, its
\* own keyword and the outcomes of its own calls only, and the client keeps
\* the configuration its constructor gave it.
C23_NoInterference ==
  /\ token = AnalysisCredential
  /\ client = constructor(AnalysisCredential).client
  /\ DOMAIN client = { "apiToken", "accessId", "secretKey", "baseUrl" }
  /\ \A inv \in { Locals, other } :
       /\ inv.pc # "raised"
       /\ inv.pc = "returned" => OwnReport(inv)

C23_Witness ==
  /\ pc = "returned" /\ other.pc = "returned"
  /\ args.primarySite = "example.com" /\ other.args.primarySite = "c2.com"
  /\ includeKeywordAnalysis(args)
  /\ Len(sent) = 10
  /\ sent[3].body.params.data.target_query.query = "c2.com"
  /\ sent[6].body.params.data.target_query.query = "example.com"
  /\ replies[1] = "failed" /\ replies[4] = "ok" /\ replies[5] = "failed"
  /\ replies[8] = "failed"
  /\ IsErrorMarker(other.outcome.returned.primary_site_data.site_metrics)
  /\ ~IsErrorMarker(outcome.returned.primary_site_data.site_metrics)
  /\ outcome.returned.keyword_analysis.volume.keyword = TargetKeyword


(* -------------------- an endpoint wrapper on its own -------------------- *)
\* base64 of `a` (no colon) and of `b:"` (one colon)
WrapperCredentials == { << "Y", "Y" >>, << "Y", "j", "o", "i" >> }

CustomOptions ==
  [ locale |-> "de-DE", engine |-> "bing", limit |-> 10, scope |-> "subdomain",
    sort |-> "source_domain_authority", filter |-> "external",
    sourceScope |-> "root_domain", start |-> "2024-01-01", end |-> "2024-02-01",
    metrics |-> << "domain_authority" >> ]

WrapperOptions == { << >>, CustomOptions, [ limit |-> 0 ] }

WrapperCalls ==
  { [ wrapper |-> "getQuota" ] }
  \cup { [ wrapper |-> w, keyword |-> TargetKeyword, options |-> o ] :
           w \in { "getKeywordSearchIntent", "getKeywordSuggestions",
                   "getKeywordDifficulty", "getKeywordVolume", "getKeywordMetrics",
                   "getKeywordOpportunity", "getKeywordPriority" },
           o \in WrapperOptions }
  \cup { [ wrapper |-> w, site |-> PrimarySite ] :
           w \in { "getSiteBrandAuthority", "getSiteMetrics" } }
  \cup { [ wrapper |-> w, site |-> PrimarySite, options |-> o ] :
           w \in { "getSiteRankingKeywords", "getSiteRankingKeywordsCount" },
           o \in WrapperOptions }
  \cup { [ wrapper |-> "getUrlMetrics", targets |-> << "moz.com", "example.com" >>,
           options |-> o ] : o \in WrapperOptions }
  \cup { [ wrapper |-> w, target |-> "example.com/page", options |-> o ] :
           w \in { "getLinks", "getAnchorText", "getTopPages", "getLinkingDomains" },
           o \in WrapperOptions }
  \cup { [ wrapper |-> w, options |-> o ] :
           w \in { "getGlobalTopPages", "getGlobalTopDomains", "getUsageData" },
           o \in WrapperOptions }
  \cup { [ wrapper |-> "getSiteMetricsMultiple",
           sites |-> << "moz.com", "example.com" >> ] }

\* Values a response may carry as its result.
ResultValues(request) ==
  { [ a |-> 1 ], RemoteResult(request),
    [ error |-> [code |-> 7, message |-> "bad"] ] }

ApiErrors == { [ code |-> 7, message |-> "bad" ],
               [ code |-> 0 - 32601, message |-> "Method not found" ] }

\* Everything the transport may answer a post with.
WrapperReplies(request) ==
  { [ resolved |-> TRUE, data |-> [ jsonrpc |-> "2.0", result |-> r ] ] :
      r \in ResultValues(request) }
  \cup { ErrorReply(e.code, e.message) : e \in ApiErrors }
  \cup { [ resolved |-> TRUE,
           data |-> [ jsonrpc |-> "2.0", result |-> [a |-> 1], error |-> e ] ] :
           e \in ApiErrors }
  \cup { [ resolved |-> TRUE, data |-> [ jsonrpc |-> "2.0" ] ] }
  \cup { NetworkFailure("timeout") }
  \cup { NetworkFailure("Request failed with status code 500")
           @@ [ response |-> [ status |-> 500,
                               data |-> [ jsonrpc |-> "2.0", error |-> e ] ] ] :
           e \in ApiErrors }
  \cup { [ resolved |-> FALSE, axios |-> FALSE,
           error |-> [ message |-> [ prefix |-> "TypeError" ] ] ] }

\* `return this.sendRequest(request)`: the wrapper builds its request and the
\* post goes out.
CallWrapper(call) ==
  /\ pc = "idle"
  /\ args' = call
  /\ phase' = "wrapper"
  /\ LET request == WrapperRequest(call) IN
     /\ promises' = << [ request |-> request, post |-> 1, state |-> "pending" ] >>
     /\ sent' = << Outbound(client, request) >>
  /\ replies' = << "pending" >>
  /\ pc' = "await"
  /\ UNCHANGED << other, tool, response, token, client, delivered, idx, analysis, outcome >>

\* The post settles and with it the promise the wrapper returned.
WrapperSettles(reply) ==
  /\ pc = "await" /\ phase = "wrapper"
  /\ delivered' = reply
  /\ LET settlement == sendRequest(reply) IN
     /\ promises' = << [ request |-> promises[1].request, post |-> 1 ]
                       @@ settlement >>
     /\ outcome' = IF settlement.state = "fulfilled"
                   THEN [ returned |-> settlement.value ]
                   ELSE [ raised |-> settlement.reason ]
     /\ pc' = IF settlement.state = "fulfilled" THEN "returned" ELSE "raised"
  /\ replies' = << IF IsFailure(reply) THEN "failed" ELSE "ok" >>
  /\ UNCHANGED << other, tool, response, token, client, args, phase, idx, analysis, sent >>

WrapperSettle ==
  /\ pc = "await" /\ phase = "wrapper"
  /\ \E reply \in WrapperReplies(promises[1].request) : WrapperSettles(reply)

InitWrapper ==
  /\ token \in WrapperCredentials
  /\ client = constructor(token).client
  /\ pc = "idle"
  /\ args = << >>
  /\ phase = "none"
  /\ idx = 0
  /\ promises = << >>
  /\ analysis = << >>
  /\ sent = << >>
  /\ replies = << >>
  /\ delivered = << >>
  /\ outcome = << >>
  /\ tool = << >>
  /\ response = << >>
  /\ other = << >>

NextWrapper ==
  \/ \E call \in WrapperCalls : CallWrapper(call)
  \/ WrapperSettle

SpecWrapper == InitWrapper /\ [][NextWrapper]_vars

WrapperDone == phase = "wrapper" /\ pc \in { "returned", "raised" }

\* C7: when the post resolves with a response that carries an error object,
\* the wrapper fails with the API-error failure built from that object's
\* message and code, never with the network-error failure.
C7_ApiErrorSurfaced ==
  (WrapperDone /\ delivered.resolved /\ Has(delivered.data, "error")) =>
    /\ pc = "raised"
    /\ Has(outcome, "raised")
    /\ outcome.raised.message.prefix = "Moz API Error"
    /\ outcome.raised.message.message = delivered.data.error.message
    /\ outcome.raised.message.code = delivered.data.error.code
    /\ promises[1].state = "rejected"

C7_Witness ==
  /\ WrapperDone
  /\ args.wrapper = "getLinkingDomains"
  /\ delivered = ErrorReply(7, "bad")
  /\ outcome.raised.message.code = 7
  /\ outcome.raised.message.message = "bad"

\* C8: when the post resolves with a response that carries a result and no
\* error, the wrapper returns that very result.
C8_ResultUnchanged ==
  (WrapperDone /\ delivered.resolved /\ Has(delivered.data, "result")
     /\ ~Has(delivered.data, "error")) =>
    /\ pc = "returned"
    /\ outcome = [ returned |-> delivered.data.result ]

C8_Witness ==
  /\ WrapperDone
  /\ args.wrapper = "getTopPages"
  /\ delivered.resolved
  /\ Has(delivered.data, "result")
  /\ delivered.data.result = [ a |-> 1 ]
  /\ outcome = [ returned |-> [ a |-> 1 ] ]

LimitWrappers ==
  { "getKeywordSuggestions", "getSiteRankingKeywords", "getLinks",
    "getAnchorText", "getTopPages", "getLinkingDomains", "getGlobalTopPages",
    "getGlobalTopDomains" }

DocumentedLimit(wrapper) ==
  CASE wrapper = "getKeywordSuggestions" -> 1000
    [] wrapper \in { "getSiteRankingKeywords", "getGlobalTopPages",
                     "getGlobalTopDomains" } -> 100
    [] OTHER -> 50

\* C14 as claimed: the request of a wrapper that takes a limit carries the
\* limit the caller gave, and the documented default when none was given.
C14_AsClaimed ==
  (phase = "wrapper" /\ args.wrapper \in LimitWrappers) =>
    LET data == sent[1].body.params.data IN
    /\ Has(data, "limit")
    /\ data.limit = IF Has(args.options, "limit") THEN args.options.limit
                    ELSE DocumentedLimit(args.wrapper)


(* --------------------------- construction ------------------------------ *)
\* new MozApiClient({ apiToken: token })
Construct ==
  /\ pc = "new"
  /\ LET made == constructor(token) IN
     /\ client' = made.client
     /\ outcome' = IF made.threw THEN [ raised |-> made.log ]
                   ELSE [ constructed |-> made.log ]
     /\ pc' = IF made.threw THEN "raised" ELSE "constructed"
  /\ UNCHANGED << other, tool, response, token, args, phase, idx, promises, analysis, sent, replies,
                  delivered >>

InitConstruct ==
  /\ token \in Credentials
  /\ client = << >>
  /\ pc = "new"
  /\ args = << >>
  /\ phase = "none"
  /\ idx = 0
  /\ promises = << >>
  /\ analysis = << >>
  /\ sent = << >>
  /\ replies = << >>
  /\ delivered = << >>
  /\ outcome = << >>
  /\ tool = << >>
  /\ response = << >>
  /\ other = << >>

NextConstruct == Construct

SpecConstruct == InitConstruct /\ [][NextConstruct]_vars

\* C10 as claimed: the constructor never raises; it retains accessId and
\* secretKey when the decoded credential holds exactly one colon, and retains
\* neither when it holds no colon or more than one.
C10_AsClaimed ==
  pc # "new" =>
    /\ pc = "constructed"
    /\ IF ColonCount(Base64Decode(token)) = 1
       THEN Has(client, "accessId") /\ Has(client, "secretKey")
       ELSE ~Has(client, "accessId") /\ ~Has(client, "secretKey")


(* ------------------- the dispatch handler (index.ts) ------------------- *)
\* ErrorCode of the MCP SDK
MethodNotFound == 0 - 32601
InvalidParams == 0 - 32602
InternalError == 0 - 32603

KeywordTools ==
  { "moz_keyword_search_intent", "moz_keyword_suggestions",
    "moz_keyword_difficulty", "moz_keyword_volume", "moz_keyword_metrics",
    "moz_keyword_opportunity", "moz_keyword_priority" }

SiteTools ==
  { "moz_site_brand_authority", "moz_site_metrics", "moz_site_ranking_keywords" }

\* the cases of the switch
ToolNames ==
  { "moz_quota", "moz_site_metrics_multiple", "moz_competitor_analysis" }
  \cup KeywordTools \cup SiteTools

\* the client method a case calls
ToolWrapper(name) ==
  CASE name = "moz_quota" -> "getQuota"
    [] name = "moz_keyword_search_intent" -> "getKeywordSearchIntent"
    [] name = "moz_keyword_suggestions" -> "getKeywordSuggestions"
    [] name = "moz_keyword_difficulty" -> "getKeywordDifficulty"
    [] name = "moz_keyword_volume" -> "getKeywordVolume"
    [] name = "moz_keyword_metrics" -> "getKeywordMetrics"
    [] name = "moz_keyword_opportunity" -> "getKeywordOpportunity"
    [] name = "moz_keyword_priority" -> "getKeywordPriority"
    [] name = "moz_site_brand_authority" -> "getSiteBrandAuthority"
    [] name = "moz_site_metrics" -> "getSiteMetrics"
    [] name = "moz_site_metrics_multiple" -> "getSiteMetricsMultiple"
    [] name = "moz_site_ranking_keywords" -> "getSiteRankingKeywords"
    [] name = "moz_competitor_analysis" -> "getCompetitorAnalysis"

\* the arguments a case tests before it calls the client
RequiredFields(name) ==
  CASE name \in KeywordTools -> { "keyword" }
    [] name \in SiteTools -> { "site" }
    [] name = "moz_site_metrics_multiple" -> { "sites" }
    [] name = "moz_competitor_analysis" -> { "primary_site", "target_keyword" }
    [] OTHER -> {}

\* !args.f : the argument is undefined or the empty string (an array, even
\* an empty one, is truthy)
Falsy(a, f) ==
  \/ ~Has(a, f)
  \/ f \in { "keyword", "target_keyword" } /\ a[f] = << >>
  \/ f \in { "site", "primary_site" } /\ a[f] = ""

\* !args || !args.f || ...
MissingRequired(t) ==
  /\ RequiredFields(t.name) # {}
  /\ \/ ~Has(t, "arguments")
     \/ \E f \in RequiredFields(t.name) : Falsy(t.arguments, f)

MissingText(name) ==
  CASE name \in KeywordTools -> "Missing required parameter: keyword"
    [] name \in SiteTools -> "Missing required parameter: site"
    [] name = "moz_site_metrics_multiple" -> "Missing required parameter: sites"
    [] OTHER -> "Missing required parameters: primary_site, target_keyword"

\* new McpError(code, message): an Error whose text is the SDK's
\* `MCP error <code>: <message>`
McpError(code, detail) ==
  [ code |-> code,
    message |-> [ prefix |-> "MCP error", code |-> code, detail |-> detail ] ]

\* Variant: the catch block does not name the tool
CaughtUnnamed(name, error) ==
  McpError(InternalError,
           [ prefix |-> "Error executing", name |-> "tool",
             cause |-> error.message ])

\* The catch block of the handler: whatever was thrown inside the try.
Caught(name, error) ==
  McpError(InternalError,
           [ prefix |-> "Error executing", name |-> name,
             cause |-> error.message ])

\* { f: args.f as T | undefined, ... }: an undefined property reads as an
\* absent one
Pick(a, fields) == [ f \in (fields \cap DOMAIN a) |-> a[f] ]

\* the call of the client a case makes
ClientCall(t) ==
  LET a == t.arguments
      w == ToolWrapper(t.name) IN
  CASE t.name = "moz_quota" -> [ wrapper |-> w ]
    [] t.name = "moz_keyword_suggestions" ->
         [ wrapper |-> w, keyword |-> a.keyword,
           options |-> Pick(a, { "locale", "limit" }) ]
    [] t.name \in KeywordTools \ { "moz_keyword_suggestions" } ->
         [ wrapper |-> w, keyword |-> a.keyword,
           options |-> Pick(a, { "locale", "engine" }) ]
    [] t.name \in { "moz_site_brand_authority", "moz_site_metrics" } ->
         [ wrapper |-> w, site |-> a.site ]
    [] t.name = "moz_site_metrics_multiple" -> [ wrapper |-> w, sites |-> a.sites ]
    [] t.name = "moz_site_ranking_keywords" ->
         [ wrapper |-> w, site |-> a.site,
           options |-> Pick(a, { "engine", "locale", "limit" }) ]

\* the arguments of getCompetitorAnalysis (lines 603-611); an undefined
\* competitor_sites takes the parameter's default
AnalysisArguments(a) ==
  [ primarySite |-> a.primary_site, targetKeyword |-> a.target_keyword,
    options |-> Pick(a, { "locale", "include_keyword_analysis" }) ]
  @@ (IF Has(a, "competitor_sites")
      THEN [ competitorSites |-> a.competitor_sites ] ELSE << >>)

\* { content: [{ type: 'text', text: JSON.stringify(result, null, 2) }] }
Content(result) ==
  [ content |-> << [ type |-> "text",
                     text |-> [ json |-> result, indent |-> 2 ] ] >> ]

ToolOptions == [ locale |-> "de-DE", engine |-> "bing", limit |-> 10 ]

\* The tool requests the handler is given.
ToolRequests ==
  { [ name |-> n ] : n \in ToolNames \cup { "moz_links" } }
  \cup { [ name |-> n, arguments |-> a ] :
           n \in { "moz_quota", "moz_links" }, a \in { << >> } }
  \cup { [ name |-> n, arguments |-> a ] :
           n \in KeywordTools,
           a \in { << >>, [ locale |-> "de-DE" ], [ keyword |-> << >> ],
                   [ keyword |-> TargetKeyword ],
                   [ keyword |-> TargetKeyword ] @@ ToolOptions } }
  \cup { [ name |-> n, arguments |-> a ] :
           n \in SiteTools,
           a \in { << >>, [ site |-> "" ], [ site |-> PrimarySite ],
                   [ site |-> PrimarySite ] @@ ToolOptions } }
  \cup { [ name |-> "moz_site_metrics_multiple", arguments |-> a ] :
           a \in { << >>, [ sites |-> << >> ],
                   [ sites |-> << "moz.com", "example.com" >> ] } }
  \cup { [ name |-> "moz_competitor_analysis", arguments |-> a ] :
           a \in { << >>, [ primary_site |-> PrimarySite ],
                   [ target_keyword |-> TargetKeyword ],
                   [ primary_site |-> "", target_keyword |-> TargetKeyword ] } }
  \cup { [ name |-> "moz_competitor_analysis",
           arguments |-> [ primary_site |-> PrimarySite,
                           target_keyword |-> TargetKeyword ] @@ c @@ o ] :
           c \in { << >>, [ competitor_sites |-> << "c1.com" >> ] },
           o \in { << >>, [ include_keyword_analysis |-> FALSE ] } }

\* The handler from its start to its first await, or to its end when it
\* throws before it calls the client (lines 331-627 and the catch).
CallTool(t) ==
  /\ pc = "idle" /\ tool = << >>
  /\ tool' = t
  /\ IF t.name \notin ToolNames
     THEN /\ response' = [ raised |-> Caught(t.name,
                             McpError(MethodNotFound,
                                      [ text |-> "Unknown tool", name |-> t.name ])) ]
          /\ pc' = "responded"
          /\ UNCHANGED << args, phase, idx, promises, analysis, sent, replies >>
     ELSE IF MissingRequired(t)
     THEN /\ response' = [ raised |-> Caught(t.name,
                             McpError(InvalidParams,
                                      [ text |-> MissingText(t.name) ])) ]
          /\ pc' = "responded"
          /\ UNCHANGED << args, phase, idx, promises, analysis, sent, replies >>
     ELSE IF t.name = "moz_competitor_analysis"
     THEN LET a == AnalysisArguments(t.arguments) IN
          /\ args' = a
          /\ analysis' = [ primary_site |-> a.primarySite,
                           target_keyword |-> a.targetKeyword,
                           locale |-> locale(a),
                           analysis_timestamp |-> "now",
                           primary_site_data |-> << >>,
                           competitor_data |-> << >>,
                           keyword_analysis |-> << >>,
                           insights |-> << >> ]
          /\ phase' = "primary"
          /\ pc' = "issue"
          /\ UNCHANGED << response, idx, promises, sent, replies >>
     ELSE LET request == WrapperRequest(ClientCall(t)) IN
          /\ args' = ClientCall(t)
          /\ phase' = "wrapper"
          /\ promises' = << [ request |-> request, post |-> 1,
                              state |-> "pending" ] >>
          /\ sent' = << Outbound(client, request) >>
          /\ replies' = << "pending" >>
          /\ pc' = "await"
          /\ UNCHANGED << response, idx, analysis >>
  /\ UNCHANGED << other, token, client, delivered, outcome >>

\* The handler resumes after `await mozClient.<method>(...)`.
Respond ==
  /\ tool # << >>
  /\ pc \in { "returned", "raised" }
  /\ response' = IF pc = "returned" THEN Content(outcome.returned)
                 ELSE [ raised |-> Caught(tool.name, outcome.raised) ]
  /\ pc' = "responded"
  /\ UNCHANGED << other, tool, token, client, args, phase, idx, promises, analysis,
                  sent, replies, delivered, outcome >>

InitDispatch ==
  /\ token = AnalysisCredential
  /\ client = constructor(token).client
  /\ pc = "idle"
  /\ args = << >>
  /\ phase = "none"
  /\ idx = 0
  /\ promises = << >>
  /\ analysis = << >>
  /\ sent = << >>
  /\ replies = << >>
  /\ delivered = << >>
  /\ outcome = << >>
  /\ tool = << >>
  /\ response = << >>
  /\ other = << >>

NextDispatch ==
  \/ \E t \in ToolRequests : CallTool(t)
  \/ WrapperSettle
  \/ IssueCall
  \/ Settle
  \/ ResumePrimary
  \/ ResumeCompetitor
  \/ ResumeKeyword
  \/ GenerateInsights
  \/ Return
  \/ Respond

SpecDispatch == InitDispatch /\ [][NextDispatch]_vars

Responded == pc = "responded"

\* C12 as claimed: a tool request that lacks a required argument ends with
\* the invalid-parameters error as the handler's outcome; no client method
\* has been called and nothing has been posted.
C12_AsClaimed ==
  (Responded /\ MissingRequired(tool)) =>
    /\ Has(response, "raised")
    /\ response.raised.code = InvalidParams
    /\ args = << >> /\ outcome = << >>
    /\ sent = << >>

\* C13: when the client method a tool request called has failed, the
\* handler ends with the internal-error failure, whose text holds the name
\* of the tool requested and the text of the failure of the client method.
C13_FailureWrapped ==
  (Responded /\ Has(outcome, "raised")) =>
    /\ Has(response, "raised")
    /\ response.raised.code = InternalError
    /\ response.raised.message.code = InternalError
    /\ response.raised.message.detail.prefix = "Error executing"
    /\ response.raised.message.detail.name = tool.name
    /\ response.raised.message.detail.cause = outcome.raised.message

C13_Witness ==
  /\ Responded
  /\ tool.name = "moz_site_ranking_keywords"
  /\ Has(outcome, "raised")
  /\ delivered = ErrorReply(7, "bad")
  /\ response.raised.message.detail.name = "moz_site_ranking_keywords"
  /\ response.raised.message.detail.cause.code = 7


(* ------------- generateCompetitorInsights over its inputs -------------- *)
\* The reports getCompetitorAnalysis can hold when it calls
\* generateCompetitorInsights: every slot is the error marker of its call or
\* whatever the remote service answered (the payload is not validated).
BrandAuthoritySlots(site, values) ==
  LET call == [ wrapper |-> "getSiteBrandAuthority", site |-> site ]
      m == WrapperRequest(call).method IN
  { ErrorMarker(call), [ of |-> m, site |-> site ] }
  \cup { [ of |-> m, site |-> site, result |-> [ brand_authority |-> v ] ] :
           v \in values }

\* Entries of a ranking-keyword list: well-formed ones, one without a
\* keyword, a null entry and one whose keyword is a number.
RankingEntries ==
  { [ keyword |-> [ str |-> << "S", "E", "O", " ", "k", "i", "t" >> ], rank |-> 4 ],
    [ keyword |-> [ str |-> << "s", "e", "o" >> ] ],
    [ keyword |-> [ str |-> << "m", "y", "s", "e", "o" >> ], rank |-> 0 ],
    [ keyword |-> [ str |-> << "a", "d", "s" >> ], rank |-> 9 ],
    [ rank |-> 2 ],
    [ null |-> TRUE ],
    [ keyword |-> [ num |-> 7 ] ] }

RankingSlots(site) ==
  LET call == [ wrapper |-> "getSiteRankingKeywords", site |-> site,
                options |-> [ locale |-> "en-US", limit |-> 100 ] ]
      m == WrapperRequest(call).method IN
  { ErrorMarker(call), [ of |-> m, site |-> site, result |-> [ length |-> 3 ] ] }
  \cup { [ of |-> m, site |-> site, result |-> Array(items) ] :
           items \in SeqsUpTo(RankingEntries, MaxKeywords) }

SiteMetricsSlot(site) == OwnResult([ wrapper |-> "getSiteMetrics", site |-> site ])

CompetitorName(i) == IF i % 2 = 1 THEN "c1.com" ELSE "c2.com"

\* competitor_data with the given brand-authority slots
CompetitorData(slots) ==
  [ i \in 1..Len(slots) |->
      CompetitorEntry(CompetitorName(i),
                      << SiteMetricsSlot(CompetitorName(i)), slots[i],
                         OwnResult([ wrapper |-> "getSiteRankingKeywords",
                                     site |-> CompetitorName(i),
                                     options |-> [ locale |-> "en-US",
                                                   limit |-> 100 ] ]) >>) ]

CompetitorSlots(i) == BrandAuthoritySlots(CompetitorName(i), { 0, 40, 60 })

CompetitorDataChoices ==
  UNION { { CompetitorData(slots) :
              slots \in { f \in [ 1..n -> UNION { CompetitorSlots(i) : i \in 1..2 } ] :
                            \A i \in 1..n : f[i] \in CompetitorSlots(i) } } :
          n \in 0..MaxCompetitors }

KeywordAnalysisChoices ==
  LET calls == KeywordCalls([ targetKeyword |-> TargetKeyword, options |-> << >> ])
      ok == [ i \in 1..4 |-> OwnResult(calls[i]) ] IN
  { << >>,
    KeywordAnalysis(TargetKeyword, ok),
    KeywordAnalysis(TargetKeyword, [ ok EXCEPT ![2] = ErrorMarker(calls[2]) ]) }

ReportOf(target, ba, ranking, competitors, keywords) ==
  [ primary_site |-> PrimarySite,
    target_keyword |-> target,
    locale |-> "en-US",
    analysis_timestamp |-> "now",
    primary_site_data |-> PrimarySiteData(<< SiteMetricsSlot(PrimarySite), ba,
                                              ranking >>),
    competitor_data |-> competitors,
    keyword_analysis |-> keywords,
    insights |-> << >> ]

\* Every brand-authority value against every competitor list, and every
\* ranking-keyword list against both spellings of the target keyword.
ReportsAbout(site) ==
  { ReportOf(TargetKeyword, ba, ranking, competitors, << >>) :
      ba \in BrandAuthoritySlots(site, 0..MaxBrandAuthority),
      ranking \in { OwnResult([ wrapper |-> "getSiteRankingKeywords",
                                  site |-> site,
                                  options |-> [ locale |-> "en-US",
                                                limit |-> 100 ] ]) },
      competitors \in CompetitorDataChoices }
  \cup
  { ReportOf(target, ba, ranking, << >>, keywords) :
      target \in { TargetKeyword, << "S", "E", "O" >> },
      ba \in BrandAuthoritySlots(site, { 50 }),
      ranking \in RankingSlots(site),
      keywords \in KeywordAnalysisChoices }

\* const insights = this.generateCompetitorInsights(analysis)
ApplyInsights ==
  /\ pc = "insights" /\ phase = "report"
  /\ outcome' = [ returned |-> generateCompetitorInsights(analysis) ]
  /\ pc' = "generated"
  /\ UNCHANGED << other, tool, response, token, client, args, phase, idx, promises,
                  analysis, sent, replies, delivered >>

InitInsights ==
  /\ token = AnalysisCredential
  /\ client = constructor(token).client
  /\ pc = "insights"
  /\ analysis \in ReportsAbout(PrimarySite)
  /\ args = analysis
  /\ phase = "report"
  /\ idx = 0
  /\ promises = << >>
  /\ sent = << >>
  /\ replies = << >>
  /\ delivered = << >>
  /\ outcome = << >>
  /\ tool = << >>
  /\ response = << >>
  /\ other = << >>

NextInsights == ApplyInsights

SpecInsights == InitInsights /\ [][NextInsights]_vars

Generated == pc = "generated"

Insights == outcome.returned

\* the lines of a rule among the insights
Lines(rules) == SelectSeq(Insights, LAMBDA l : l.rule \in rules)

\* the brand authority retrieved for the primary site, as a set
PrimaryBA ==
  ResultField(analysis.primary_site_data.brand_authority, "brand_authority")

BandLabel(v) ==
  IF v >= 70 THEN "Excellent"
  ELSE IF v >= 50 THEN "Good"
  ELSE IF v >= 30 THEN "Fair"
  ELSE "Needs improvement"

BoundaryTable ==
  { << 70, "Excellent" >>, << 69, "Good" >>, << 50, "Good" >>, << 49, "Fair" >>,
    << 30, "Fair" >>, << 29, "Needs improvement" >> }

\* C15 as claimed: for every brand-authority value of 0..100 retrieved for
\* the primary site there is exactly one brand-authority line, with the label
\* of the value's band.
C15_AsClaimed ==
  Generated =>
    \A v \in PrimaryBA :
      v \in 0..100 =>
        /\ Len(Lines({ "brand_authority" })) = 1
        /\ Lines({ "brand_authority" })[1].band = BandLabel(v)

\* C15, amended: for every brand-authority value of 1..100 retrieved for the
\* primary site there is exactly one brand-authority line, which shows the
\* value and is labelled "Excellent" from 70, "Good" from 50, "Fair" from 30
\* and "Needs improvement" below; for the value 0, as when no value was
\* retrieved, there is no brand-authority line.
C15_BrandAuthorityBands ==
  Generated =>
    LET lines == Lines({ "brand_authority" }) IN
    /\ \A v \in PrimaryBA :
         IF v = 0 THEN Len(lines) = 0
         ELSE /\ Len(lines) = 1
              /\ lines[1].value = v
              /\ lines[1].band = BandLabel(v)
              /\ \A row \in BoundaryTable : v = row[1] => lines[1].band = row[2]
    /\ PrimaryBA = {} => Len(lines) = 0

C15_Witness ==
  /\ Generated
  /\ PrimaryBA = { 69 }
  /\ Len(analysis.competitor_data) = 2
  /\ Insights[1] = [ rule |-> "brand_authority", value |-> 69, band |-> "Good" ]

\* The ranking-keyword list retrieved for the primary site, as a set: empty
\* when the call failed.
RetrievedList ==
  LET slot == analysis.primary_site_data.ranking_keywords IN
  IF Has(slot, "result") /\ Has(slot.result, "items") THEN { slot.result.items }
  ELSE {}

\* an entry whose keyword holds the target keyword, whatever the case
Matches(entry) ==
  /\ Has(entry, "keyword") /\ Has(entry.keyword, "str")
  /\ includes(toLowerCase(entry.keyword.str), toLowerCase(analysis.target_keyword))

\* an entry the test of find cannot be applied to
Malformed(entry) ==
  \/ Has(entry, "null")
  \/ Has(entry, "keyword") /\ Has(entry.keyword, "num") /\ entry.keyword.num # 0

\* find stops at the first match; it faults on a malformed entry before it
FaultIn(items) ==
  \E j \in 1..Len(items) :
    Malformed(items[j]) /\ \A i \in 1..(j - 1) : ~Matches(items[i])

\* the position shown for an entry
PositionOf(entry) ==
  IF Has(entry, "rank") /\ entry.rank # 0 THEN [ rank |-> entry.rank ]
  ELSE [ text |-> "unknown" ]

\* C16 as claimed: when the ranking-keyword list of the primary site was
\* retrieved, there is a 'ranks at position' line for an entry holding the
\* target keyword, with that entry's rank (unknown when it has none), if there
\* is such an entry, and the 'does not appear to rank' line otherwise; when
\* the call failed there is neither.
C16_AsClaimed ==
  Generated =>
    LET ranks == Lines({ "ranks_for_target" })
        absent == Lines({ "not_ranking" }) IN
    /\ \A items \in RetrievedList :
         IF \E i \in 1..Len(items) : Matches(items[i])
         THEN /\ Len(ranks) = 1 /\ Len(absent) = 0
              /\ \E i \in 1..Len(items) :
                   /\ Matches(items[i])
                   /\ ranks[1].position =
                        IF Has(items[i], "rank") THEN [ rank |-> items[i].rank ]
                        ELSE [ text |-> "unknown" ]
         ELSE Len(ranks) = 0 /\ Len(absent) = 1
    /\ RetrievedList = {} => Len(ranks) = 0 /\ Len(absent) = 0

\* C16, amended: when the ranking-keyword list of the primary site was
\* retrieved, is not empty and find does not fault, the insights hold the
\* count line followed by one line of the rule: the 'ranks at position' line
\* with the rank of the first entry whose keyword holds the target keyword
\* whatever the case (unknown when that rank is absent or 0), or, when no
\* entry holds it, the 'does not appear to rank' line.  When the list is
\* empty, when the call failed or when find faults, there is no line of the
\* rule.
C16_RankingPresence ==
  Generated =>
    LET ranks == Lines({ "ranks_for_target" })
        absent == Lines({ "not_ranking" })
        count == Lines({ "ranking_count" }) IN
    /\ \A items \in RetrievedList :
         IF Len(items) = 0 THEN Len(ranks) + Len(absent) + Len(count) = 0
         ELSE /\ count = << [ rule |-> "ranking_count", count |-> Len(items) ] >>
              /\ IF FaultIn(items) THEN Len(ranks) + Len(absent) = 0
                 ELSE IF \E i \in 1..Len(items) : Matches(items[i])
                 THEN LET first == CHOOSE i \in 1..Len(items) :
                                     /\ Matches(items[i])
                                     /\ \A j \in 1..(i - 1) : ~Matches(items[j])
                      IN  /\ absent = << >>
                          /\ ranks = << [ rule |-> "ranks_for_target",
                                          keyword |-> analysis.target_keyword,
                                          position |-> PositionOf(items[first]) ] >>
                          /\ Insights[Len(Insights)] = ranks[1]
                 ELSE /\ ranks = << >>
                      /\ absent = << [ rule |-> "not_ranking",
                                       keyword |-> analysis.target_keyword ] >>
                      /\ Insights[Len(Insights)] = absent[1]
    /\ RetrievedList = {} => Len(ranks) + Len(absent) = 0

C16_Witness ==
  /\ Generated
  /\ analysis.target_keyword = << "S", "E", "O" >>
  /\ RetrievedList =
       { << [ keyword |-> [ str |-> << "a", "d", "s" >> ], rank |-> 9 ],
            [ keyword |-> [ str |-> << "m", "y", "s", "e", "o" >> ], rank |-> 0 ] >> }
  /\ Lines({ "ranks_for_target" }) # << >>
  /\ Lines({ "ranks_for_target" })[1].position = [ text |-> "unknown" ]

\* the brand authority retrieved for competitor i, as a set
CompetitorBA(i) ==
  LET entry == analysis.competitor_data[i] IN
  IF Has(entry, "brand_authority")
  THEN ResultField(entry.brand_authority, "brand_authority")
  ELSE {}

\* The competitors whose retrieved brand authority is above (side = 1) or
\* below (side = -1) the one retrieved for the primary site, the values of
\* `unknown` standing for no value.
Comparable(side, unknown) ==
  { i \in 1..Len(analysis.competitor_data) :
      \E p \in PrimaryBA \ unknown, c \in CompetitorBA(i) \ unknown :
        IF side = 1 THEN c > p ELSE c < p }

\* C17 as claimed: the two counts of the comparison line are the numbers of
\* competitors whose retrieved brand authority is above, respectively below,
\* the one retrieved for the primary site, and the line is there only if some
\* competitor and the primary site both have a retrieved value.
C17_AsClaimed ==
  Generated =>
    LET lines == Lines({ "competitive_landscape" }) IN
    /\ Len(lines) <= 1
    /\ Len(lines) = 1 =>
         /\ lines[1].stronger = Cardinality(Comparable(1, {}))
         /\ lines[1].weaker = Cardinality(Comparable(-1, {}))
         /\ PrimaryBA # {}
         /\ \E i \in 1..Len(analysis.competitor_data) : CompetitorBA(i) # {}

\* C17, amended: a brand authority of 0 counts as not known.  The two counts
\* of the comparison line are the numbers of competitors whose known brand
\* authority is strictly above, respectively strictly below, the primary
\* site's known brand authority, and the line is there exactly when one of
\* the two counts is positive (so not when every known competitor value
\* equals the primary site's, and never when the primary site's value or
\* every competitor's value is missing, errored or 0).
C17_CompetitorComparison ==
  Generated =>
    LET lines == Lines({ "competitive_landscape" })
        stronger == Cardinality(Comparable(1, { 0 }))
        weaker == Cardinality(Comparable(-1, { 0 })) IN
    IF stronger > 0 \/ weaker > 0
    THEN lines = << [ rule |-> "competitive_landscape",
                      stronger |-> stronger, weaker |-> weaker ] >>
    ELSE lines = << >>

C17_Witness ==
  /\ Generated
  /\ PrimaryBA = { 50 }
  /\ Len(analysis.competitor_data) = 2
  /\ CompetitorBA(1) = { 60 } /\ CompetitorBA(2) = { 0 }
  /\ Lines({ "competitive_landscape" }) =
       << [ rule |-> "competitive_landscape", stronger |-> 1, weaker |-> 0 ] >>

FallbackNote == [ rule |-> "fallback_note" ]

\* An internal fault: the ranking-keyword result has a length but is no
\* array, or find meets a malformed entry.
Faulted ==
  LET slot == analysis.primary_site_data.ranking_keywords IN
  /\ Has(slot, "result")
  /\ Has(slot.result, "length") /\ slot.result.length # 0
  /\ (Has(slot.result, "items") => FaultIn(slot.result.items))

\* C18 as claimed: generateCompetitorInsights returns (it never raises) and
\* leaves the report as it was given; after an internal fault the sequence
\* returned is the fallback note alone.
C18_AsClaimed ==
  Generated =>
    /\ Has(outcome, "returned")
    /\ analysis = args
    /\ Faulted => Insights = << FallbackNote >>

\* C18, amended: generateCompetitorInsights returns (it never raises) and
\* leaves the report as it was given; after an internal fault the sequence
\* returned is the lines pushed before the fault (those of the earlier rules
\* and the ranking-count line) followed by one fallback note, and without a
\* fault it holds no fallback note.
C18_FaultAbsorbed ==
  Generated =>
    /\ Has(outcome, "returned")
    /\ analysis = args
    /\ IF Faulted
       THEN LET n == Len(Insights) IN
            /\ n >= 2
            /\ Insights[n] = FallbackNote
            /\ Insights[n - 1].rule = "ranking_count"
            /\ SubSeq(Insights, 1, n - 2) =
                 Lines({ "brand_authority", "difficulty", "volume",
                         "competitive_landscape" })
            /\ Len(Lines({ "fallback_note" })) = 1
            /\ Len(Lines({ "ranks_for_target", "not_ranking" })) = 0
       ELSE Len(Lines({ "fallback_note" })) = 0

C18_Witness ==
  /\ Generated
  /\ Faulted
  /\ PrimaryBA = { 50 }
  /\ RetrievedList =
       { << [ keyword |-> [ str |-> << "a", "d", "s" >> ], rank |-> 9 ],
            [ null |-> TRUE ] >> }
  /\ Len(Insights) >= 3
  /\ Insights[1].rule = "brand_authority"
  /\ Insights[Len(Insights)] = FallbackNote

====
